---- MODULE Spec2Model ----
(***************************************************************************)
(* ReclaimMe backend (main.py): the generate-documents request pipeline.   *)
(*                                                                         *)
(* Conventions of the model                                                *)
(*   - a Python str is a sequence of text blocks (each block a run of      *)
(*     characters); "" is <<>>, concatenation is \o, and strip() removes   *)
(*     leading and trailing whitespace blocks;                             *)
(*   - an Optional value is NoneVal or Some(v);                            *)
(*   - a JSON document sent by the external service is a sequence of       *)
(*     tokens, which json_loads parses;                                    *)
(*   - a raised exception is a record [type, status_code, detail, msg].    *)
(***************************************************************************)
EXTENDS Integers, Sequences, FiniteSets, TLC

(* requests: every request the server has seen, with the locals of its  *)
(* handler; prompt_mapping: the module-level dict PROMPT_MAPPING as it   *)
(* stands in memory, shared by every request; process: how far the      *)
(* import of the module has come, the module-level client it created    *)
(* and how many clients have been constructed                            *)
VARIABLES requests, prompt_mapping, process

vars == <<requests, prompt_mapping, process>>

(* ------------------------------------------------------------------ *)
(* Optional values and text                                            *)
(* ------------------------------------------------------------------ *)

NoneVal == [is |-> "None"]

Some(v) == [is |-> "Some", v |-> v]

IsNone(o) == o.is = "None"

IsSome(o) == o.is = "Some"

Text(s) == <<s>>

WhitespaceBlocks == {" ", "  ", "\n"}

RECURSIVE lstrip(_)
lstrip(s) ==
    IF s # <<>> /\ Head(s) \in WhitespaceBlocks THEN lstrip(Tail(s)) ELSE s

RECURSIVE rstrip(_)
rstrip(s) ==
    IF s # <<>> /\ s[Len(s)] \in WhitespaceBlocks
    THEN rstrip(SubSeq(s, 1, Len(s) - 1))
    ELSE s

strip(s) == rstrip(lstrip(s))

RECURSIVE join(_, _)
join(sep, items) ==
    IF items = <<>> THEN <<>>
    ELSE IF Len(items) = 1 THEN Head(items)
    ELSE Head(items) \o sep \o join(sep, Tail(items))

(* ------------------------------------------------------------------ *)
(* System prompts: the shared base block and the per-category blocks   *)
(* ------------------------------------------------------------------ *)

BASE_SYSTEM_PROMPT_STRUCTURE == <<"\n", "You are ReclaimMe, an AI assistant dedicated to helping victims of scams in Nigeria. ...", "\n">>

PHISHING_SCAM_SYSTEM_PROMPT_DETAILS == <<"\n", "This user was a victim of a 'Phishing Scam'. ...", "\n">>

ROMANCE_SCAM_SYSTEM_PROMPT_DETAILS == <<"\n", "This user was a victim of a 'Romance Scam'. Approach with extra empathy and sensitivity. ...", "\n">>

ONLINE_MARKETPLACE_SCAM_SYSTEM_PROMPT_DETAILS == <<"\n", "This user was a victim of an 'Online Marketplace Scam' on a platform like Jiji, OLX, Konga Marketplace, or Facebook Marketplace. ...", "\n">>

INVESTMENT_CRYPTO_SCAM_SYSTEM_PROMPT_DETAILS == <<"\n", "This user was a victim of an 'Investment or Cryptocurrency Scam' (e.g., fake trading platforms, Forex scams, Ponzi/pyramid schemes, fake 'ROI' businesses, pig butchering scams involving crypto). ...", "\n">>

JOB_OFFER_SCAM_SYSTEM_PROMPT_DETAILS == <<"\n", "This user was a victim of a 'Fake Job Offer Scam'. ...", "\n">>

TECH_SUPPORT_SCAM_SYSTEM_PROMPT_DETAILS == <<"\n", "This user was a victim of a 'Tech Support Scam'. ...", "\n">>

FAKE_LOAN_GRANT_SCAM_SYSTEM_PROMPT_DETAILS == <<"\n", "This user was a victim of a 'Fake Loan or Grant Scam'. ...", "\n">>

SOCIAL_MEDIA_IMPERSONATION_SCAM_SYSTEM_PROMPT_DETAILS == <<"\n", "This user was a victim of a 'Social Media Impersonation Scam'. ...", "\n">>

SUBSCRIPTION_TRAP_SCAM_SYSTEM_PROMPT_DETAILS == <<"\n", "This user was a victim of a 'Subscription Trap' (e.g., misleading \"free trial\" that automatically converts to expensive recurring charges, or difficult-to-cancel subscriptions with hidden terms). ...", "\n">>

FAKE_CHARITY_SCAM_SYSTEM_PROMPT_DETAILS == <<"\n", "This user was a victim of a 'Fake Charity Scam', donating money to a cause or organization that was non-existent or fraudulent. ...", "\n">>

DELIVERY_LOGISTICS_SCAM_SYSTEM_PROMPT_DETAILS == <<"\n", "This user was a victim of a 'Delivery/Logistics Scam'. ...", "\n">>

ONLINE_COURSE_CERTIFICATION_SCAM_SYSTEM_PROMPT_DETAILS == <<"\n", "This user was a victim of a 'Fake Online Course or Certification Scam'. ...", "\n">>

ATM_CARD_SKIMMING_SCAM_SYSTEM_PROMPT_DETAILS == <<"\n", "This user was a victim of 'ATM Card Skimming'. ...", "\n">>

PICKPOCKETING_SCAM_SYSTEM_PROMPT_DETAILS == <<"\n", "This user was a victim of 'Pickpocketing with Distraction'. ...", "\n">>

REAL_ESTATE_HOSTEL_SCAM_SYSTEM_PROMPT_DETAILS == <<"\n", "This user was a victim of a 'Real Estate/Hostel Scam by a Fake Agent' (property doesn't exist, agent disappears after collecting deposit/rent). ...", "\n">>

FAKE_POLICE_OFFICIAL_IMPERSONATION_SCAM_SYSTEM_PROMPT_DETAILS == <<"\n", "This user was a victim of 'Fake Police or Official Impersonation' leading to extortion, bribery, or theft. ...", "\n">>

POS_MACHINE_TAMPERING_SCAM_SYSTEM_PROMPT_DETAILS == <<"\n", "This user was a victim of 'POS Machine Tampering'. ...", "\n">>

LOTTERY_OR_YOUVE_WON_SCAM_SYSTEM_PROMPT_DETAILS == <<"\n", "This user was a victim of a 'Lottery or \"You've Won!\" Scam'. ...", "\n">>

FAKE_PRODUCT_VENDOR_INPERSON_SCAM_SYSTEM_PROMPT_DETAILS == <<"\n", "This user was a victim of a 'Fake Product or Fake Vendor Scam' in an in-person transaction. ...", "\n">>

BUS_TRANSPORT_SCAM_SYSTEM_PROMPT_DETAILS == <<"\n", "This user was a victim of a 'Bus/Transport Scam' (e.g., \"One Chance\" robbery, theft by criminals posing as passengers/drivers, drugging and theft in public transport). ...", "\n">>

FAKE_BANK_ALERT_SCAM_SYSTEM_PROMPT_DETAILS == <<"\n", "This user was a victim of a 'Fake Bank Alert Scam' (typically a seller who released goods/services after being shown a fraudulent SMS credit alert by a buyer). ...", "\n">>

DONATION_INPERSON_SCAM_SYSTEM_PROMPT_DETAILS == <<"\n", "This user was a victim of an 'In-Person Donation Scam' (e.g., fake collectors on the street for religious causes, medical emergencies, or non-existent orphanages). ...", "\n">>

OTHER_SCAMS_SYSTEM_PROMPT_DETAILS == <<"\n", "This user has experienced a scam not specifically listed, or has chosen 'Other Scams'. ...", "\n">>

PHISHING_SCAM_SYSTEM_PROMPT_blank == <<"\n", "  ", "\n">>

PHISHING_SCAM_SYSTEM_PROMPT == BASE_SYSTEM_PROMPT_STRUCTURE \o PHISHING_SCAM_SYSTEM_PROMPT_DETAILS

ROMANCE_SCAM_SYSTEM_PROMPT_details_only == ROMANCE_SCAM_SYSTEM_PROMPT_DETAILS

ROMANCE_SCAM_SYSTEM_PROMPT == BASE_SYSTEM_PROMPT_STRUCTURE \o ROMANCE_SCAM_SYSTEM_PROMPT_DETAILS

ONLINE_MARKETPLACE_SCAM_SYSTEM_PROMPT == BASE_SYSTEM_PROMPT_STRUCTURE \o ONLINE_MARKETPLACE_SCAM_SYSTEM_PROMPT_DETAILS

INVESTMENT_CRYPTO_SCAM_SYSTEM_PROMPT == BASE_SYSTEM_PROMPT_STRUCTURE \o INVESTMENT_CRYPTO_SCAM_SYSTEM_PROMPT_DETAILS

JOB_OFFER_SCAM_SYSTEM_PROMPT == BASE_SYSTEM_PROMPT_STRUCTURE \o JOB_OFFER_SCAM_SYSTEM_PROMPT_DETAILS

TECH_SUPPORT_SCAM_SYSTEM_PROMPT == BASE_SYSTEM_PROMPT_STRUCTURE \o TECH_SUPPORT_SCAM_SYSTEM_PROMPT_DETAILS

FAKE_LOAN_GRANT_SCAM_SYSTEM_PROMPT == BASE_SYSTEM_PROMPT_STRUCTURE \o FAKE_LOAN_GRANT_SCAM_SYSTEM_PROMPT_DETAILS

SOCIAL_MEDIA_IMPERSONATION_SCAM_SYSTEM_PROMPT == BASE_SYSTEM_PROMPT_STRUCTURE \o SOCIAL_MEDIA_IMPERSONATION_SCAM_SYSTEM_PROMPT_DETAILS

SUBSCRIPTION_TRAP_SCAM_SYSTEM_PROMPT == BASE_SYSTEM_PROMPT_STRUCTURE \o SUBSCRIPTION_TRAP_SCAM_SYSTEM_PROMPT_DETAILS

FAKE_CHARITY_SCAM_SYSTEM_PROMPT == BASE_SYSTEM_PROMPT_STRUCTURE \o FAKE_CHARITY_SCAM_SYSTEM_PROMPT_DETAILS

DELIVERY_LOGISTICS_SCAM_SYSTEM_PROMPT == BASE_SYSTEM_PROMPT_STRUCTURE \o DELIVERY_LOGISTICS_SCAM_SYSTEM_PROMPT_DETAILS

ONLINE_COURSE_CERTIFICATION_SCAM_SYSTEM_PROMPT == BASE_SYSTEM_PROMPT_STRUCTURE \o ONLINE_COURSE_CERTIFICATION_SCAM_SYSTEM_PROMPT_DETAILS

ATM_CARD_SKIMMING_SCAM_SYSTEM_PROMPT == BASE_SYSTEM_PROMPT_STRUCTURE \o ATM_CARD_SKIMMING_SCAM_SYSTEM_PROMPT_DETAILS

PICKPOCKETING_SCAM_SYSTEM_PROMPT == BASE_SYSTEM_PROMPT_STRUCTURE \o PICKPOCKETING_SCAM_SYSTEM_PROMPT_DETAILS

REAL_ESTATE_HOSTEL_SCAM_SYSTEM_PROMPT == BASE_SYSTEM_PROMPT_STRUCTURE \o REAL_ESTATE_HOSTEL_SCAM_SYSTEM_PROMPT_DETAILS

FAKE_POLICE_OFFICIAL_IMPERSONATION_SCAM_SYSTEM_PROMPT == BASE_SYSTEM_PROMPT_STRUCTURE \o FAKE_POLICE_OFFICIAL_IMPERSONATION_SCAM_SYSTEM_PROMPT_DETAILS

POS_MACHINE_TAMPERING_SCAM_SYSTEM_PROMPT == BASE_SYSTEM_PROMPT_STRUCTURE \o POS_MACHINE_TAMPERING_SCAM_SYSTEM_PROMPT_DETAILS

LOTTERY_OR_YOUVE_WON_SCAM_SYSTEM_PROMPT == BASE_SYSTEM_PROMPT_STRUCTURE \o LOTTERY_OR_YOUVE_WON_SCAM_SYSTEM_PROMPT_DETAILS

FAKE_PRODUCT_VENDOR_INPERSON_SCAM_SYSTEM_PROMPT == BASE_SYSTEM_PROMPT_STRUCTURE \o FAKE_PRODUCT_VENDOR_INPERSON_SCAM_SYSTEM_PROMPT_DETAILS

BUS_TRANSPORT_SCAM_SYSTEM_PROMPT == BASE_SYSTEM_PROMPT_STRUCTURE \o BUS_TRANSPORT_SCAM_SYSTEM_PROMPT_DETAILS

FAKE_BANK_ALERT_SCAM_SYSTEM_PROMPT == BASE_SYSTEM_PROMPT_STRUCTURE \o FAKE_BANK_ALERT_SCAM_SYSTEM_PROMPT_DETAILS

DONATION_INPERSON_SCAM_SYSTEM_PROMPT == BASE_SYSTEM_PROMPT_STRUCTURE \o DONATION_INPERSON_SCAM_SYSTEM_PROMPT_DETAILS

OTHER_SCAMS_SYSTEM_PROMPT == BASE_SYSTEM_PROMPT_STRUCTURE \o OTHER_SCAMS_SYSTEM_PROMPT_DETAILS

(* The registry: category identifier (a Python str) -> system prompt.  The *)
(* lottery key is written in the source with a typographic apostrophe,     *)
(* rendered here as the two characters `' to keep it apart from the        *)
(* straight one.                                                           *)
PROMPT_MAPPING ==
    (Text("Phishing Scam") :> PHISHING_SCAM_SYSTEM_PROMPT)
    @@ (Text("Romance Scam") :> ROMANCE_SCAM_SYSTEM_PROMPT)
    @@ (Text("Online Marketplace Scam") :> ONLINE_MARKETPLACE_SCAM_SYSTEM_PROMPT)
    @@ (Text("Investment or Cryptocurrency Scam") :> INVESTMENT_CRYPTO_SCAM_SYSTEM_PROMPT)
    @@ (Text("Fake Job Offer Scam") :> JOB_OFFER_SCAM_SYSTEM_PROMPT)
    @@ (Text("Tech Support Scam") :> TECH_SUPPORT_SCAM_SYSTEM_PROMPT)
    @@ (Text("Fake Loan or Grant Scam") :> FAKE_LOAN_GRANT_SCAM_SYSTEM_PROMPT)
    @@ (Text("Social Media Impersonation Scam") :> SOCIAL_MEDIA_IMPERSONATION_SCAM_SYSTEM_PROMPT)
    @@ (Text("Subscription Trap Scam") :> SUBSCRIPTION_TRAP_SCAM_SYSTEM_PROMPT)
    @@ (Text("Fake Charity Scam (Online)") :> FAKE_CHARITY_SCAM_SYSTEM_PROMPT)
    @@ (Text("Delivery/Logistics Scam") :> DELIVERY_LOGISTICS_SCAM_SYSTEM_PROMPT)
    @@ (Text("Fake Online Course or Certification Scam") :> ONLINE_COURSE_CERTIFICATION_SCAM_SYSTEM_PROMPT)
    @@ (Text("ATM Card Skimming") :> ATM_CARD_SKIMMING_SCAM_SYSTEM_PROMPT)
    @@ (Text("Pickpocketing with Distraction") :> PICKPOCKETING_SCAM_SYSTEM_PROMPT)
    @@ (Text("Real Estate/Hostel Scam (Fake Agent)") :> REAL_ESTATE_HOSTEL_SCAM_SYSTEM_PROMPT)
    @@ (Text("Fake Police or Official Impersonation") :> FAKE_POLICE_OFFICIAL_IMPERSONATION_SCAM_SYSTEM_PROMPT)
    @@ (Text("POS Machine Tampering") :> POS_MACHINE_TAMPERING_SCAM_SYSTEM_PROMPT)
    @@ (Text("Lottery or You`'ve Won! Scam") :> LOTTERY_OR_YOUVE_WON_SCAM_SYSTEM_PROMPT)
    @@ (Text("Fake Product or Vendor (In-Person)") :> FAKE_PRODUCT_VENDOR_INPERSON_SCAM_SYSTEM_PROMPT)
    @@ (Text("Bus/Transport Scam (One Chance)") :> BUS_TRANSPORT_SCAM_SYSTEM_PROMPT)
    @@ (Text("Fake Bank Alert Scam") :> FAKE_BANK_ALERT_SCAM_SYSTEM_PROMPT)
    @@ (Text("Donation Scam (In-Person)") :> DONATION_INPERSON_SCAM_SYSTEM_PROMPT)
    @@ (Text("Other Unspecified Scam") :> OTHER_SCAMS_SYSTEM_PROMPT)

(* ------------------------------------------------------------------ *)
(* Python values                                                       *)
(* ------------------------------------------------------------------ *)

PyNone == [py |-> "None"]

PyStr(s) == [py |-> "str", s |-> s]

PyFloat(n) == [py |-> "float", n |-> n]

PyDict(m) == [py |-> "dict", m |-> m]

PyList(items) == [py |-> "list", items |-> items]

(* bool(v) *)
Truthy_is_not_none(v) == v.py # "None"

Truthy(v) ==
    CASE v.py = "None" -> FALSE
      [] v.py = "str" -> v.s # <<>>
      [] v.py = "float" -> v.n # 0
      [] v.py = "dict" -> DOMAIN v.m # {}
      [] v.py = "list" -> v.items # <<>>
      [] v.py = "bool" -> v.b
      [] OTHER -> TRUE

(* format(v) inside an f-string: str is kept, a float prints with its *)
(* fractional part (50000.0), None prints as None.                     *)
Format(v) ==
    CASE v.py = "str" -> v.s
      [] v.py = "float" -> Text(ToString(v.n) \o ".0")
      [] v.py = "None" -> Text("None")
      [] OTHER -> Text("<object>")

Exception(type, msg) ==
    [type |-> type, status_code |-> 0, detail |-> <<>>, msg |-> msg]

HTTPException(status_code, detail) ==
    [type |-> "HTTPException", status_code |-> status_code, detail |-> detail, msg |-> detail]

(* ------------------------------------------------------------------ *)
(* Request models                                                      *)
(* ------------------------------------------------------------------ *)

BeneficiaryFields == {"name", "bank", "account"}

(* class Beneficiary: three required str fields *)
Beneficiary(v) ==
    [py |-> "Beneficiary", name |-> v.m["name"], bank |-> v.m["bank"], account |-> v.m["account"]]

MandatoryFields == {"name", "phone", "email", "address", "scamType", "dateTime", "description"}

OptionalFields == {"amount", "currency", "paymentMethod", "beneficiary"}

(* class ScamReportData: the declared type of every field *)
FieldType ==
    [name |-> "str", phone |-> "str", email |-> "str", address |-> "str",
     scamType |-> "str", dateTime |-> "str", description |-> "str",
     amount |-> "float", currency |-> "str", paymentMethod |-> "str",
     beneficiary |-> "Beneficiary"]

(* The fields declared Field(...): no default, so the key must be present *)
RequiredFieldsDescriptionDefaulted == MandatoryFields \ {"description"}

RequiredFields == MandatoryFields

Conforms_null_allowed(type, v) ==
    CASE type = "str" -> v.py \in {"str", "None"}
      [] type = "float" -> v.py \in {"float", "None"}
      [] type = "Beneficiary" ->
            \/ v.py = "None"
            \/ /\ v.py = "dict"
               /\ BeneficiaryFields \subseteq DOMAIN v.m
               /\ \A k \in BeneficiaryFields : v.m[k].py = "str"
      [] OTHER -> FALSE

(* Whether the parsed body value v is accepted for a field of this type. *)
(* No field carries a length, range or format constraint.                *)
Conforms(type, v) ==
    CASE type = "str" -> v.py = "str"
      [] type = "float" -> v.py = "float"
      [] type = "Beneficiary" ->
            /\ v.py = "dict"
            /\ BeneficiaryFields \subseteq DOMAIN v.m
            /\ \A k \in BeneficiaryFields : v.m[k].py = "str"
      [] OTHER -> FALSE

Coerce(type, v) == IF type = "Beneficiary" THEN Beneficiary(v) ELSE v

(* The fields of a body that request validation reports *)
FieldErrors(body) ==
    {f \in DOMAIN FieldType :
        IF f \in DOMAIN body
        THEN ~Conforms(FieldType[f], body[f])
        ELSE f \in RequiredFields}

(* The ScamReportData built from a body without field errors: an absent *)
(* optional field takes its default, None                             *)
ScamReportData(body) ==
    [f \in DOMAIN FieldType |->
        IF f \in DOMAIN body THEN Coerce(FieldType[f], body[f]) ELSE PyNone]

(* ------------------------------------------------------------------ *)
(* Results of evaluating Python code: a value, or a raised exception   *)
(* ------------------------------------------------------------------ *)

Return(v) == [raised |-> FALSE, value |-> v]

Raise(e) == [raised |-> TRUE, exc |-> e]

(* ------------------------------------------------------------------ *)
(* Template resolution (generate_scam_specific_documents)              *)
(* ------------------------------------------------------------------ *)

(* PROMPT_MAPPING.get(key, default), on the dict as it stands *)
PromptMappingGet_phishing_default(key, default) ==
    IF key \in DOMAIN prompt_mapping THEN prompt_mapping[key]
    ELSE PHISHING_SCAM_SYSTEM_PROMPT

PromptMappingGet(key, default) ==
    IF key \in DOMAIN prompt_mapping THEN prompt_mapping[key] ELSE default

(* The dict after .get(key, default): a lookup leaves it as it was.   *)
(* (setdefault would insert the default, pop would remove the key.)   *)
MappingAfterGet_setdefault(mapping, key, default) ==
    IF key \in DOMAIN mapping THEN mapping ELSE mapping @@ (key :> default)

MappingAfterGet_pop(mapping, key, default) ==
    [k \in DOMAIN mapping \ {key} |-> mapping[k]]

MappingAfterGet(mapping, key, default) == mapping

(* The system prompt the handler passes on: the looked-up prompt, or the *)
(* fallback again when the looked-up prompt is blank                     *)
selected_system_prompt(report_data) ==
    LET looked_up == PromptMappingGet(report_data.scamType.s, OTHER_SCAMS_SYSTEM_PROMPT)
    IN  IF strip(looked_up) = <<>> THEN OTHER_SCAMS_SYSTEM_PROMPT ELSE looked_up

(* ------------------------------------------------------------------ *)
(* The user narrative (the f-string of invoke_ai_document_generation)  *)
(* ------------------------------------------------------------------ *)

NotSpecified == Text("Not specified")

AmountLabel == "- Amount Lost (if applicable): "

PaymentMethodLabel == "- Payment Method Used (if applicable): "

CurrencyLabel == "- Currency (if applicable): "

BeneficiaryLabel == "beneficiary_details (if applicable)= ("

(* value if value else "Not specified" *)
OrNotSpecified_by_presence(v) == IF v.py # "None" THEN Format(v) ELSE NotSpecified

OrNotSpecified(v) == IF Truthy(v) THEN Format(v) ELSE NotSpecified

(* The f-string.  Its replacement fields are evaluated left to right;  *)
(* the three beneficiary fields sit in the literal text of the string, *)
(* outside any conditional expression, so report_data.beneficiary.name *)
(* is evaluated for every report: on None it raises AttributeError.    *)
(* The words  if report_data.beneficiary else "Not specified"  are     *)
(* literal text of the string.                                         *)
user_prompt_content(report_data, specific_scam_type_for_user_message) ==
    IF report_data.beneficiary.py = "None"
    THEN Raise(Exception("AttributeError",
                         Text("'NoneType' object has no attribute 'name'")))
    ELSE Return(
        <<"\n", "A user in Nigeria has been a victim of a ">>
        \o specific_scam_type_for_user_message
        \o <<".", "\n",
             "Please generate a consoling message first, followed by the tailored documents ...",
             "\n", "\n",
             "- Victim's Name: ">> \o Format(report_data.name)
        \o <<"\n", "- Victim's Phone Number: ">> \o Format(report_data.phone)
        \o <<"\n", "- Victim's Email Address: ">> \o Format(report_data.email)
        \o <<"\n", "- Victim's Residential Address: ">> \o Format(report_data.address)
        \o <<"\n", "- Date and Time of Incident/Discovery: ">> \o Format(report_data.dateTime)
        \o <<"\n", "- Detailed Description of the Incident: ">> \o Format(report_data.description)
        \o <<"\n", AmountLabel>> \o OrNotSpecified(report_data.amount)
        \o <<"\n", PaymentMethodLabel>> \o OrNotSpecified(report_data.paymentMethod)
        \o <<"\n", CurrencyLabel>> \o OrNotSpecified(report_data.currency)
        \o <<"\n", BeneficiaryLabel, "\n",
             "    f\"Name: ">> \o Format(report_data.beneficiary.name)
        \o <<", \"", "\n", "    f\"Bank: ">> \o Format(report_data.beneficiary.bank)
        \o <<", \"", "\n", "    f\"Account: ">> \o Format(report_data.beneficiary.account)
        \o <<"\"", "\n", "    if report_data.beneficiary ", "\n",
             "    else \"Not specified\"", "\n", ")", "\n", "\n",
             "Ensure your response is a valid JSON object adhering to the structure: ...",
             "\n">>)

(* ------------------------------------------------------------------ *)
(* json.loads over a tokenised document                                *)
(* ------------------------------------------------------------------ *)

LBrace == [tok |-> "{"]

RBrace == [tok |-> "}"]

LBracket == [tok |-> "["]

RBracket == [tok |-> "]"]

Comma == [tok |-> ","]

Colon == [tok |-> ":"]

TNull == [tok |-> "null"]

TBool(b) == [tok |-> "bool", b |-> b]

TStr(s) == [tok |-> "str", s |-> s]

TNum(n) == [tok |-> "num", n |-> n]

(* text that is no JSON token, e.g. prose *)
TWord(w) == [tok |-> "word", w |-> w]

PyInt(n) == [py |-> "int", n |-> n]

PyBool(b) == [py |-> "bool", b |-> b]

EmptyDict == [k \in {} |-> PyNone]

Parsed(v, rest) == [ok |-> TRUE, value |-> v, rest |-> rest]

ParseFail == [ok |-> FALSE]

RECURSIVE ParseValue(_)
RECURSIVE ParsePairs(_, _)
RECURSIVE ParseElements(_, _)

(* one JSON value at the head of ts *)
ParseValue(ts) ==
    IF ts = <<>> THEN ParseFail
    ELSE LET h == Head(ts) IN
         CASE h.tok = "str" -> Parsed(PyStr(h.s), Tail(ts))
           [] h.tok = "num" -> Parsed(PyInt(h.n), Tail(ts))
           [] h.tok = "null" -> Parsed(PyNone, Tail(ts))
           [] h.tok = "bool" -> Parsed(PyBool(h.b), Tail(ts))
           [] h.tok = "{" ->
                IF Len(ts) >= 2 /\ ts[2].tok = "}"
                THEN Parsed(PyDict(EmptyDict), SubSeq(ts, 3, Len(ts)))
                ELSE ParsePairs(Tail(ts), EmptyDict)
           [] h.tok = "[" ->
                IF Len(ts) >= 2 /\ ts[2].tok = "]"
                THEN Parsed(PyList(<<>>), SubSeq(ts, 3, Len(ts)))
                ELSE ParseElements(Tail(ts), <<>>)
           [] OTHER -> ParseFail

(* "key" : value , ... } : a repeated key keeps its last value *)
ParsePairs(ts, acc) ==
    IF Len(ts) < 3 \/ ts[1].tok # "str" \/ ts[2].tok # ":" THEN ParseFail
    ELSE LET v == ParseValue(SubSeq(ts, 3, Len(ts))) IN
         IF ~v.ok \/ v.rest = <<>> THEN ParseFail
         ELSE LET items == (ts[1].s :> v.value) @@ acc IN
              CASE Head(v.rest).tok = "," -> ParsePairs(Tail(v.rest), items)
                [] Head(v.rest).tok = "}" -> Parsed(PyDict(items), Tail(v.rest))
                [] OTHER -> ParseFail

(* value , ... ] *)
ParseElements(ts, acc) ==
    LET v == ParseValue(ts) IN
    IF ~v.ok \/ v.rest = <<>> THEN ParseFail
    ELSE CASE Head(v.rest).tok = "," -> ParseElements(Tail(v.rest), Append(acc, v.value))
           [] Head(v.rest).tok = "]" -> Parsed(PyList(Append(acc, v.value)), Tail(v.rest))
           [] OTHER -> ParseFail

(* json.loads(s): s must be a str holding exactly one JSON value *)
json_loads_lenient(s) ==
    IF s.py # "str"
    THEN Raise(Exception("TypeError",
                         Text("the JSON object must be str, bytes or bytearray, not NoneType")))
    ELSE LET p == ParseValue(s.s) IN
         IF p.ok /\ p.rest = <<>> THEN Return(p.value) ELSE Return(PyDict(EmptyDict))

json_loads(s) ==
    IF s.py # "str"
    THEN Raise(Exception("TypeError",
                         Text("the JSON object must be str, bytes or bytearray, not NoneType")))
    ELSE LET p == ParseValue(s.s) IN
         IF p.ok /\ p.rest = <<>>
         THEN Return(p.value)
         ELSE IF p.ok
         THEN Raise(Exception("JSONDecodeError", Text("Extra data")))
         ELSE Raise(Exception("JSONDecodeError", Text("Expecting value")))

(* ------------------------------------------------------------------ *)
(* invoke_ai_document_generation: the external call and what follows   *)
(* ------------------------------------------------------------------ *)

temperature_tenths == 6

max_tokens == 4090

(* the arguments of client.chat.completions.create *)
CreateArguments_single_message(system_prompt, user_prompt) ==
    [model |-> "gpt-4o",
     response_format |-> [type |-> "json_object"],
     messages |-> <<[role |-> "user", content |-> system_prompt \o user_prompt]>>,
     temperature_tenths |-> temperature_tenths,
     max_tokens |-> max_tokens]

CreateArguments(system_prompt, user_prompt) ==
    [model |-> "gpt-4o",
     response_format |-> [type |-> "json_object"],
     messages |-> <<[role |-> "system", content |-> system_prompt],
                    [role |-> "user", content |-> user_prompt]>>,
     temperature_tenths |-> temperature_tenths,
     max_tokens |-> max_tokens]

required_keys ==
    <<Text("consoling_message"), Text("police_report_draft"),
      Text("bank_complaint_email"), Text("next_steps_checklist")>>

IsSubSeq(needle, s) ==
    \E i \in 0..(Len(s) - Len(needle)) :
        \A j \in 1..Len(needle) : s[i + j] = needle[j]

(* Whether  key in container  can be evaluated at all *)
SupportsIn(container) == container.py \in {"dict", "list", "str"}

(* key in container: a key of a dict, an element of a list, a substring *)
(* of a str                                                             *)
Contains(key, container) ==
    CASE container.py = "dict" -> key \in DOMAIN container.m
      [] container.py = "list" ->
            \E i \in 1..Len(container.items) : container.items[i] = PyStr(key)
      [] container.py = "str" -> IsSubSeq(key, container.s)
      [] OTHER -> FALSE

RECURSIVE Filter(_, _)
Filter(seq, keep) ==
    IF seq = <<>> THEN <<>>
    ELSE IF Head(seq) \in keep
         THEN <<Head(seq)>> \o Filter(Tail(seq), keep)
         ELSE Filter(Tail(seq), keep)

Range(seq) == {seq[i] : i \in 1..Len(seq)}

(* [key for key in required_keys if key not in documents_json] *)
missing_keys_present_ones(documents_json) ==
    Filter(required_keys, {k \in Range(required_keys) : Contains(k, documents_json)})

missing_keys(documents_json) ==
    Filter(required_keys, {k \in Range(required_keys) : ~Contains(k, documents_json)})

MissingDetailPrefix ==
    Text("AI response did not contain all required document fields. Missing: ")

FormatErrorDetail ==
    Text("AI response format error. The AI did not return valid JSON.")

UnexpectedDetailPrefix ==
    Text("An unexpected error occurred while generating documents via AI: ")

(* class GeneratedDocuments: four required str fields, no default, no *)
(* validator; a str is stored as given                                 *)
GeneratedDocuments_defaulting(consoling_message, police_report_draft, bank_complaint_email, next_steps_checklist) ==
    LET d(v) == IF v.py = "str" THEN v.s ELSE <<>>
    IN  Return([consoling_message |-> d(consoling_message),
                police_report_draft |-> d(police_report_draft),
                bank_complaint_email |-> d(bank_complaint_email),
                next_steps_checklist |-> d(next_steps_checklist)])

GeneratedDocuments_stripping(consoling_message, police_report_draft, bank_complaint_email, next_steps_checklist) ==
    IF \E v \in {consoling_message, police_report_draft, bank_complaint_email, next_steps_checklist} : v.py # "str"
    THEN Raise(Exception("ValidationError", Text("validation error for GeneratedDocuments")))
    ELSE Return([consoling_message |-> strip(consoling_message.s),
                 police_report_draft |-> strip(police_report_draft.s),
                 bank_complaint_email |-> strip(bank_complaint_email.s),
                 next_steps_checklist |-> strip(next_steps_checklist.s)])

GeneratedDocuments(consoling_message, police_report_draft, bank_complaint_email, next_steps_checklist) ==
    IF \E v \in {consoling_message, police_report_draft, bank_complaint_email, next_steps_checklist} : v.py # "str"
    THEN Raise(Exception("ValidationError", Text("validation error for GeneratedDocuments")))
    ELSE Return([consoling_message |-> consoling_message.s,
                 police_report_draft |-> police_report_draft.s,
                 bank_complaint_email |-> bank_complaint_email.s,
                 next_steps_checklist |-> next_steps_checklist.s])

(* a printed line: its fixed text, and the raw response content it *)
(* carries, if it carries one                                      *)
LogLine_without_raw(text, raw) == [text |-> text, raw |-> NoneVal]

LogLine(text, raw) == [text |-> text, raw |-> raw]

(* What leaves the try block: a result (Return or Raise), the value of *)
(* ai_response_content at that point, and the lines printed so far      *)
TryExit(result, ai_response_content, printed) ==
    [result |-> result, ai_response_content |-> ai_response_content, printed |-> printed]

(* The checks on the parsed document and the packaging *)
CheckAndPackage(documents_json, content) ==
    IF ~SupportsIn(documents_json)
    THEN TryExit(Raise(Exception("TypeError", Text("argument is not iterable"))), content, <<>>)
    ELSE IF \E k \in Range(required_keys) : ~Contains(k, documents_json)
    THEN IF documents_json.py # "dict"
         THEN TryExit(Raise(Exception("AttributeError", Text("object has no attribute 'keys'"))),
                      content, <<>>)
         ELSE TryExit(Raise(HTTPException(500,
                         MissingDetailPrefix \o join(Text(", "), missing_keys(documents_json)))),
                      content,
                      <<LogLine("AI response missing required keys", NoneVal)>>)
    ELSE IF documents_json.py # "dict"
    THEN TryExit(Raise(Exception("TypeError", Text("indices must be integers"))), content, <<>>)
    ELSE TryExit(GeneratedDocuments(documents_json.m[required_keys[1]],
                                    documents_json.m[required_keys[2]],
                                    documents_json.m[required_keys[3]],
                                    documents_json.m[required_keys[4]]),
                 content, <<>>)

(* The body of the try block once the awaited call has completed with  *)
(* `completion`: the call raised, or it returned a response object      *)
TryBlock(completion) ==
    IF completion.kind = "raises"
    THEN TryExit(Raise(completion.exc), PyStr(<<>>), <<>>)
    ELSE IF completion.choices = <<>>
    THEN TryExit(Raise(Exception("IndexError", Text("list index out of range"))), PyStr(<<>>), <<>>)
    ELSE LET content == completion.choices[1].message.content
             loaded == json_loads(content)
         IN  IF loaded.raised
             THEN TryExit(loaded, content, <<>>)
             ELSE CheckAndPackage(loaded.value, content)

(* The except clauses, in the order written *)
ExceptClauses_generic_first == <<"Exception", "JSONDecodeError", "HTTPException">>

ExceptClauses == <<"JSONDecodeError", "HTTPException", "Exception">>

(* isinstance(exc, cls): every modelled exception derives from Exception *)
IsInstance(exc, cls) == cls = "Exception" \/ exc.type = cls

(* the first except clause that matches *)
MatchingClause(exc) ==
    ExceptClauses[CHOOSE i \in 1..Len(ExceptClauses) :
        /\ IsInstance(exc, ExceptClauses[i])
        /\ \A j \in 1..(i - 1) : ~IsInstance(exc, ExceptClauses[j])]

(* What `except json.JSONDecodeError as e` raises: the detail is a   *)
(* fixed text, e is not used                                         *)
FormatErrorException_with_cause(e) ==
    HTTPException(500, FormatErrorDetail \o Text(" ") \o e.msg)

FormatErrorException(e) == HTTPException(500, FormatErrorDetail)

(* What `except Exception as e` raises: status 500, the detail a fixed *)
(* prefix followed by str(e)                                           *)
UnexpectedException_bad_request(e) == HTTPException(400, UnexpectedDetailPrefix \o e.msg)

UnexpectedException(e) == HTTPException(500, UnexpectedDetailPrefix \o e.msg)

(* What the function ends with: the HTTPException it raises, or the   *)
(* documents it returns; and everything it printed                     *)
AfterAwait(completion) ==
    LET t == TryBlock(completion)
        clause == MatchingClause(t.result.exc)
    IN  IF ~t.result.raised
        THEN [result |-> t.result, printed |-> t.printed]
        ELSE CASE clause = "JSONDecodeError" ->
                    [result |-> Raise(FormatErrorException(t.result.exc)),
                     printed |-> t.printed \o
                        <<LogLine("AI response was not valid JSON", Some(t.ai_response_content))>>]
               [] clause = "HTTPException" ->
                    [result |-> t.result, printed |-> t.printed]
               [] OTHER ->
                    [result |-> Raise(UnexpectedException(t.result.exc)),
                     printed |-> t.printed
                        \o <<LogLine("Error during AI document generation", NoneVal)>>
                        \o (IF Truthy(t.ai_response_content)
                            THEN <<LogLine("Problematic AI response content was",
                                           Some(t.ai_response_content))>>
                            ELSE <<>>)]

(* ------------------------------------------------------------------ *)
(* Inputs: request bodies                                              *)
(* ------------------------------------------------------------------ *)

(* how many mandatory fields of one body deviate from a well-formed str *)
MaxDeviations == 1

Examples ==
    [name |-> Text("Amina Bello"), phone |-> Text("+2348012345678"),
     email |-> Text("amina.bello@example.com"),
     address |-> Text("123 Adetokunbo Ademola Crescent, Victoria Island, Lagos"),
     dateTime |-> Text("19/05/2025"),
     description |-> Text("A detailed narrative of what happened"),
     scamType |-> Text("Phishing Scam")]

ScamTypeInputs ==
    {Text("Phishing Scam"), Text("Romance Scam"), Text("Other Unspecified Scam"),
     Text("Nonexistent Category"), Text("phishing scam")}

(* a mandatory key may be absent, null, of another JSON type, or "" *)
Deviations == {"missing", "null", "wrong_type", "empty"}

DeviantValue(kind) ==
    CASE kind = "null" -> PyNone
      [] kind = "wrong_type" -> PyList(<<>>)
      [] OTHER -> PyStr(<<>>)

AmountInputs ==
    {NoneVal, Some(PyFloat(0)), Some(PyFloat(50000)), Some(PyStr(Text("a lot")))}

CurrencyInputs == {NoneVal, Some(PyStr(<<>>)), Some(PyStr(Text("NGN")))}

PaymentMethodInputs ==
    {NoneVal, Some(PyStr(<<>>)), Some(PyStr(Text("Bank Transfer to Zenith Bank")))}

BeneficiaryInputs ==
    {NoneVal,
     Some(PyDict([name |-> PyStr(Text("Scammer X")), bank |-> PyStr(Text("FakeBank Plc")),
                  account |-> PyStr(Text("0123456789"))])),
     Some(PyDict([name |-> PyStr(Text("Scammer X")), bank |-> PyStr(Text("FakeBank Plc"))]))}

RequestBody(scam, deviant, kind, amount, currency, paymentMethod, beneficiary) ==
    LET optional == [amount |-> amount, currency |-> currency,
                     paymentMethod |-> paymentMethod, beneficiary |-> beneficiary]
        present == (MandatoryFields \ (IF kind = "missing" THEN deviant ELSE {}))
                   \cup {f \in OptionalFields : IsSome(optional[f])}
    IN  [f \in present |->
            IF f \in deviant THEN DeviantValue(kind)
            ELSE IF f = "scamType" THEN PyStr(scam)
            ELSE IF f \in MandatoryFields THEN PyStr(Examples[f])
            ELSE optional[f].v]

RequestBodies ==
    {RequestBody(scam, deviant, kind, amount, currency, paymentMethod, beneficiary) :
        scam \in ScamTypeInputs,
        deviant \in {S \in SUBSET MandatoryFields : Cardinality(S) <= MaxDeviations},
        kind \in Deviations,
        amount \in AmountInputs, currency \in CurrencyInputs,
        paymentMethod \in PaymentMethodInputs, beneficiary \in BeneficiaryInputs}

(* ------------------------------------------------------------------ *)
(* Inputs: what the external service answers                           *)
(* ------------------------------------------------------------------ *)

PlainValue ==
    (required_keys[1] :> TStr(Text("I'm truly sorry to hear you've been through this.")))
    @@ (required_keys[2] :> TStr(Text("POLICE REPORT DRAFT ...")))
    @@ (required_keys[3] :> TStr(Text("Not Applicable for this scam type.")))
    @@ (required_keys[4] :> TStr(Text("1. Report to the police ...")))

(* other values a key may carry: null, "", a padded str, an array *)
OtherValues ==
    {<<TNull>>, <<TStr(<<>>)>>,
     <<TStr(<<"  ", "Dear Sir/Madam, ...", "\n">>)>>,
     <<LBracket, RBracket>>}

RECURSIVE Members(_, _)
(* "k1" : v1 , "k2" : v2 ... for the keys of `keys`, in order *)
Members(keys, value) ==
    IF keys = <<>> THEN <<>>
    ELSE <<TStr(Head(keys)), Colon>> \o value[Head(keys)]
         \o (IF Len(keys) > 1 THEN <<Comma>> ELSE <<>>)
         \o Members(Tail(keys), value)

Object(keys, value) == <<LBrace>> \o Members(keys, value) \o <<RBrace>>

PlainTokens == [k \in Range(required_keys) |-> <<PlainValue[k]>>]

ObjectDocuments ==
    {Object(Filter(required_keys, present), PlainTokens) : present \in SUBSET Range(required_keys)}
    \cup {Object(required_keys, [PlainTokens EXCEPT ![k] = v]) :
            k \in Range(required_keys), v \in OtherValues}
    \cup {Object(required_keys \o <<Text("extra_field")>>,
                 PlainTokens @@ (Text("extra_field") :> <<TNum(1)>>))}

NonObjectDocuments ==
    {<<LBracket>> \o join(<<Comma>>, [i \in 1..4 |-> <<TStr(required_keys[i])>>]) \o <<RBracket>>,
     <<LBracket, TStr(required_keys[1]), RBracket>>,
     <<TStr(required_keys[1] \o Text(" ") \o required_keys[2] \o Text(" ")
            \o required_keys[3] \o Text(" ") \o required_keys[4])>>,
     <<TStr(Text("I cannot help with that."))>>,
     <<TNum(42)>>,
     <<TBool(TRUE)>>,
     <<TNull>>}

(* bodies json.loads rejects: empty, prose, prose before an object, an  *)
(* object cut off before its end, an object followed by prose          *)
NotJsonDocuments ==
    {<<>>,
     <<TWord("I'm sorry, I can't help with that.")>>,
     <<TWord("Here is the JSON you asked for:")>> \o Object(required_keys, PlainTokens),
     SubSeq(Object(required_keys, PlainTokens), 1, 14),
     Object(required_keys, PlainTokens) \o <<TWord("Let me know if you need more.")>>}

Response(content) == [kind |-> "response", choices |-> <<[message |-> [content |-> content]]>>]

(* response objects the awaited call may return *)
Responses ==
    {Response(PyStr(d)) : d \in ObjectDocuments \cup NonObjectDocuments \cup NotJsonDocuments}
    \cup {Response(PyNone), [kind |-> "response", choices |-> <<>>]}

(* exceptions the awaited call may raise *)
CallErrors ==
    {Exception("APIConnectionError", Text("Connection error.")),
     Exception("RateLimitError", Text("Error code: 429")),
     Exception("APITimeoutError", Text("Request timed out."))}

(* ------------------------------------------------------------------ *)
(* The state machine: one request from arrival to its HTTP response    *)
(* ------------------------------------------------------------------ *)

NoResponse == [kind |-> "none", status_code |-> 0, detail |-> <<>>, documents |-> NoneVal]

(* 422 Unprocessable Entity, produced before the handler is entered *)
ValidationErrorResponse ==
    [kind |-> "validation_error", status_code |-> 422, detail |-> <<>>, documents |-> NoneVal]

(* an exception that leaves the handler: the server answers a bare 500 *)
UnhandledExceptionResponse ==
    [kind |-> "unhandled_exception", status_code |-> 500,
     detail |-> Text("Internal Server Error"), documents |-> NoneVal]

HTTPExceptionResponse(exc) ==
    [kind |-> "http_exception", status_code |-> exc.status_code,
     detail |-> exc.detail, documents |-> NoneVal]

SuccessResponse(documents) ==
    [kind |-> "success", status_code |-> 200, detail |-> <<>>, documents |-> Some(documents)]

NewRequest ==
    [pc |-> "idle",
     body |-> NoneVal,
     report_data |-> NoneVal,
     selected_system_prompt |-> NoneVal,
     user_prompt_content |-> NoneVal,
     calls |-> <<>>,
     client |-> NoneVal,
     completion |-> NoneVal,
     printed |-> <<>>,
     response |-> NoResponse]

RequestIds == {"r1"}

(* AsyncOpenAI(api_key=api_key): a client handle holding the credential *)
AsyncOpenAI(api_key) == [api_key |-> api_key]

(* The state once the module has been imported: the registry holds the *)
(* dict literal, and no request has arrived                            *)
InitWith(ids) ==
    /\ requests = [r \in ids |-> NewRequest]
    /\ prompt_mapping = PROMPT_MAPPING
    /\ process = [status |-> "serving",
                  api_key |-> Some(PyStr(Text("sk-test-key"))),
                  client |-> Some(AsyncOpenAI(PyStr(Text("sk-test-key")))),
                  created |-> 1]

Init == InitWith(RequestIds)

(* POST /generate-documents/ arrives: the body is validated against *)
(* ScamReportData before the handler is entered                      *)
ReceiveRequestFrom(r, bodies) ==
    /\ process.status = "serving"
    /\ requests[r].pc = "idle"
    /\ \E body \in bodies :
        requests' = [requests EXCEPT ![r] =
            IF FieldErrors(body) # {}
            THEN [@ EXCEPT !.pc = "done", !.body = Some(body),
                           !.response = ValidationErrorResponse]
            ELSE [@ EXCEPT !.pc = "handler", !.body = Some(body),
                           !.report_data = Some(ScamReportData(body))]]
    /\ UNCHANGED <<prompt_mapping, process>>

ReceiveRequest(r) == ReceiveRequestFrom(r, RequestBodies)

(* The scam type the handler hands over for the narrative: the      *)
(* submitted scamType itself, whatever template was resolved         *)
specific_scam_type_for_user_message_resolved_label(report_data) ==
    IF report_data.scamType.s \in DOMAIN PROMPT_MAPPING
    THEN report_data.scamType.s
    ELSE Text("Other Unspecified Scam")

specific_scam_type_for_user_message(report_data) == report_data.scamType.s

(* The handler, up to the await of the external call: template      *)
(* resolution, then invoke_ai_document_generation builds the         *)
(* narrative and issues the call                                     *)
generate_scam_specific_documents(r) ==
    /\ requests[r].pc = "handler"
    /\ LET report_data == requests[r].report_data.v
           looked_up == PromptMappingGet(report_data.scamType.s, OTHER_SCAMS_SYSTEM_PROMPT)
           system_prompt == selected_system_prompt(report_data)
           narrative == user_prompt_content(report_data,
                                            specific_scam_type_for_user_message(report_data))
           warned == IF strip(looked_up) = <<>>
                     THEN <<LogLine("Warning: System prompt is empty or invalid", NoneVal)>>
                     ELSE <<>>
       IN  requests' = [requests EXCEPT ![r] =
                IF narrative.raised
                THEN [@ EXCEPT !.pc = "done",
                               !.selected_system_prompt = Some(system_prompt),
                               !.printed = @ \o warned,
                               !.response = UnhandledExceptionResponse]
                ELSE [@ EXCEPT !.pc = "awaiting",
                               !.selected_system_prompt = Some(system_prompt),
                               !.printed = @ \o warned,
                               !.user_prompt_content = Some(narrative.value),
                               !.client = process.client,
                               !.calls = Append(@, CreateArguments(system_prompt, narrative.value))]]
    /\ UNCHANGED process
    /\ prompt_mapping' = MappingAfterGet(prompt_mapping,
                                         requests[r].report_data.v.scamType.s,
                                         OTHER_SCAMS_SYSTEM_PROMPT)

(* Where the request stands once the function has returned or raised: *)
(* every except clause ends in a raise and the try block in a return,  *)
(* so the request is over; nothing loops back to the call.             *)
PcAfterAwait_retry(after) == IF after.result.raised THEN "handler" ELSE "done"

PcAfterAwait(after) == "done"

(* The rest of invoke_ai_document_generation once the awaited call is *)
(* over, and the HTTP response the framework makes of its result       *)
Resume(r, completion) ==
    LET after == AfterAwait(completion)
    IN  /\ requests' = [requests EXCEPT ![r] =
                [@ EXCEPT !.pc = PcAfterAwait(after),
                          !.completion = Some(completion),
                          !.printed = @ \o after.printed,
                          !.response = IF after.result.raised
                                       THEN HTTPExceptionResponse(after.result.exc)
                                       ELSE SuccessResponse(after.result.value)]]
        /\ UNCHANGED <<prompt_mapping, process>>

ExternalCallReturnsFrom(r, responses) ==
    /\ requests[r].pc = "awaiting"
    /\ \E response \in responses : Resume(r, response)

ExternalCallReturns(r) == ExternalCallReturnsFrom(r, Responses)

ExternalCallRaisesFrom(r, errors) ==
    /\ requests[r].pc = "awaiting"
    /\ \E exc \in errors : Resume(r, [kind |-> "raises", exc |-> exc])

ExternalCallRaises(r) == ExternalCallRaisesFrom(r, CallErrors)

Next ==
    \/ \E r \in RequestIds : ReceiveRequest(r)
    \/ \E r \in RequestIds : generate_scam_specific_documents(r)
    \/ \E r \in RequestIds : ExternalCallReturns(r)
    \/ \E r \in RequestIds : ExternalCallRaises(r)

Spec == Init /\ [][Next]_vars

(* ------------------------------------------------------------------ *)
(* Several requests in flight at once                                  *)
(* ------------------------------------------------------------------ *)

(* how many requests the server handles at the same time *)
MaxInFlight == 2

ConcurrentIds == 1..MaxInFlight

FullBeneficiary ==
    Some(PyDict([name |-> PyStr(Text("Scammer X")), bank |-> PyStr(Text("FakeBank Plc")),
                 account |-> PyStr(Text("0123456789"))]))

(* a report of the given category, with or without a beneficiary *)
Report(scam, beneficiary) ==
    RequestBody(scam, {}, "empty", NoneVal, NoneVal, NoneVal, beneficiary)

ConcurrentBodies ==
    {Report(scam, beneficiary) :
        scam \in {Text("Phishing Scam"), Text("Nonexistent Category"),
                  Text("Other Unspecified Scam")},
        beneficiary \in {FullBeneficiary, NoneVal}}
    \cup {RequestBody(Text("Phishing Scam"), {"name"}, "missing",
                      NoneVal, NoneVal, NoneVal, FullBeneficiary)}

ConcurrentResponses ==
    {Response(PyStr(Object(required_keys, PlainTokens))),
     Response(PyStr(Object(Tail(required_keys), PlainTokens))),
     Response(PyStr(<<TWord("I'm sorry, I can't help with that.")>>)),
     Response(PyStr(Object(required_keys, PlainTokens)
                    \o <<TWord("Let me know if you need more.")>>))}

ConcurrentErrors == {Exception("RateLimitError", Text("Error code: 429"))}

(* Each request is its own coroutine: between arrival, the await of the *)
(* external call and its resumption the event loop may run any other    *)
(* request                                                               *)
NextConcurrent ==
    \/ \E r \in ConcurrentIds : ReceiveRequestFrom(r, ConcurrentBodies)
    \/ \E r \in ConcurrentIds : generate_scam_specific_documents(r)
    \/ \E r \in ConcurrentIds : ExternalCallReturnsFrom(r, ConcurrentResponses)
    \/ \E r \in ConcurrentIds : ExternalCallRaisesFrom(r, ConcurrentErrors)

SpecConcurrent == InitWith(ConcurrentIds) /\ [][NextConcurrent]_vars

(* The same requests under the scheduling the claim of termination     *)
(* rests on: the event loop runs a handler that is ready, and the      *)
(* awaited call of a request eventually returns or raises.  Nothing in *)
(* the handler bounds the wait.                                        *)
SpecConcurrentFair ==
    /\ SpecConcurrent
    /\ \A r \in ConcurrentIds :
          /\ WF_vars(generate_scam_specific_documents(r))
          /\ WF_vars(\/ ExternalCallReturnsFrom(r, ConcurrentResponses)
                     \/ ExternalCallRaisesFrom(r, ConcurrentErrors))

(* ------------------------------------------------------------------ *)
(* The service from the start of the process: import of the module,    *)
(* then requests of both kinds                                         *)
(* ------------------------------------------------------------------ *)

(* Import of the module: os.getenv("OPENAI_API_KEY") gives None (unset), *)
(* "" (set but empty) or a key; `if not api_key` raises RuntimeError and *)
(* the import fails, otherwise the client is constructed and the rest    *)
(* of the module, with the registry, is evaluated                        *)
Startup ==
    /\ process.status = "importing"
    /\ \E api_key \in {PyNone, PyStr(<<>>), PyStr(Text("sk-test-key"))} :
          IF ~Truthy(api_key)
          THEN /\ process' = [process EXCEPT !.status = "failed", !.api_key = Some(api_key)]
               /\ UNCHANGED prompt_mapping
          ELSE /\ process' = [status |-> "serving",
                              api_key |-> Some(api_key),
                              client |-> Some(AsyncOpenAI(api_key)),
                              created |-> process.created + 1]
               /\ prompt_mapping' = PROMPT_MAPPING
    /\ UNCHANGED requests

(* bodies of POST /download-pdf/: three text fields, supplied by the   *)
(* caller (one with embedded blank lines and repeated blanks)          *)
PdfBodies ==
    {[police_report_draft |-> PyStr(Text("POLICE REPORT DRAFT ...")),
      bank_complaint_email |-> PyStr(Text("Not Applicable for this scam type.")),
      next_steps_checklist |-> PyStr(Text("1. Report to the police ..."))],
     [police_report_draft |-> PyStr(<<"To the DPO,", "\n", "\n", "I write to report ...">>),
      bank_complaint_email |-> PyStr(<<"Dear Sir/Madam,", "  ", "\n", "\n", "I write ...">>),
      next_steps_checklist |-> PyStr(<<"1. Call your bank", "\n", "2. Keep evidence">>)],
     [police_report_draft |-> PyStr(<<>>),
      bank_complaint_email |-> PyStr(<<>>),
      next_steps_checklist |-> PyStr(<<>>)]}

(* toDocument: a titled document with one section per field, the text *)
(* of each field kept as given, served as an attachment with a fixed   *)
(* filename                                                            *)
to_document(body) ==
    [filename |-> "ReclaimMe_Documents.pdf",
     disposition |-> "attachment",
     sections |-> <<body.police_report_draft.s, body.bank_complaint_email.s,
                    body.next_steps_checklist.s>>]

(* POST /download-pdf/: renders the text fields of its own body; a     *)
(* variant that would render the result of a finished generate request *)
(* when there is one                                                    *)
download_pdf_from_last_result(r) ==
    /\ process.status = "serving"
    /\ requests[r].pc = "idle"
    /\ \E body \in PdfBodies :
          LET generated == {g \in DOMAIN requests : requests[g].response.kind = "success"}
              source == IF generated = {} THEN body
                        ELSE LET d == requests[CHOOSE g \in generated : TRUE].response.documents.v
                             IN  [police_report_draft |-> PyStr(d.police_report_draft),
                                  bank_complaint_email |-> PyStr(d.bank_complaint_email),
                                  next_steps_checklist |-> PyStr(d.next_steps_checklist)]
          IN  requests' = [requests EXCEPT ![r] =
                  [@ EXCEPT !.pc = "done", !.body = Some(body),
                            !.response = [kind |-> "file", status_code |-> 200, detail |-> <<>>,
                                          documents |-> Some(to_document(source))]]]
    /\ UNCHANGED <<prompt_mapping, process>>

download_pdf(r) ==
    /\ process.status = "serving"
    /\ requests[r].pc = "idle"
    /\ \E body \in PdfBodies :
          requests' = [requests EXCEPT ![r] =
              [@ EXCEPT !.pc = "done", !.body = Some(body),
                        !.response = [kind |-> "file", status_code |-> 200, detail |-> <<>>,
                                      documents |-> Some(to_document(body))]]]
    /\ UNCHANGED <<prompt_mapping, process>>

NextService ==
    \/ Startup
    \/ \E r \in ConcurrentIds : ReceiveRequestFrom(r, ConcurrentBodies)
    \/ \E r \in ConcurrentIds : generate_scam_specific_documents(r)
    \/ \E r \in ConcurrentIds : ExternalCallReturnsFrom(r, ConcurrentResponses)
    \/ \E r \in ConcurrentIds : ExternalCallRaisesFrom(r, ConcurrentErrors)
    \/ \E r \in ConcurrentIds : download_pdf(r)

(* before the import nothing exists: no client, no registry, no request *)
InitService ==
    /\ requests = [r \in ConcurrentIds |-> NewRequest]
    /\ prompt_mapping = <<>>
    /\ process = [status |-> "importing", api_key |-> NoneVal, client |-> NoneVal, created |-> 0]

SpecService == InitService /\ [][NextService]_vars

(* ------------------------------------------------------------------ *)
(* One request of every registered category, and of near misses        *)
(* ------------------------------------------------------------------ *)

(* identifiers that differ from a registered one in letter case, in one *)
(* character (the straight apostrophe, a trailing blank), or altogether *)
UnregisteredScamTypes ==
    {Text("phishing scam"), Text("PHISHING SCAM"), Text("Phishing scam"),
     Text("Lottery or You've Won! Scam"), Text("Phishing Scam "),
     Text("Nonexistent Category"), <<>>}

RegistryScamTypes == DOMAIN PROMPT_MAPPING \cup UnregisteredScamTypes

RegistryBodies ==
    {Report(scam, beneficiary) :
        scam \in RegistryScamTypes, beneficiary \in {FullBeneficiary, NoneVal}}

RegistryResponses ==
    {Response(PyStr(Object(required_keys, PlainTokens))),
     Response(PyStr(Object(Tail(required_keys), PlainTokens)))}

NextRegistry ==
    \/ \E r \in RequestIds : ReceiveRequestFrom(r, RegistryBodies)
    \/ \E r \in RequestIds : generate_scam_specific_documents(r)
    \/ \E r \in RequestIds : ExternalCallReturnsFrom(r, RegistryResponses)
    \/ \E r \in RequestIds : ExternalCallRaisesFrom(r, ConcurrentErrors)

SpecRegistry == Init /\ [][NextRegistry]_vars

(* ------------------------------------------------------------------ *)
(* Vocabulary of the properties                                        *)
(* ------------------------------------------------------------------ *)

Validated(q) == IsSome(q.report_data)

HandlerRan(q) == Validated(q) /\ q.pc \in {"awaiting", "done"}

(* the raw content of the external response a finished request received *)
HasContent(q) ==
    /\ q.pc = "done"
    /\ IsSome(q.completion)
    /\ q.completion.v.kind = "response"
    /\ q.completion.v.choices # <<>>
    /\ q.completion.v.choices[1].message.content.py = "str"

ContentOf(q) == q.completion.v.choices[1].message.content.s

(* the content is a JSON object: then this is the parsed dict's mapping *)
IsObject(q) == HasContent(q) /\ ContentOf(q) \in ObjectDocuments

ObjectOf(q) == ParseValue(ContentOf(q)).value.m

RequiredKeySet == Range(required_keys)

MissingOf(q) == RequiredKeySet \ DOMAIN ObjectOf(q)

(* complete and well-formed: all four keys, each with a str value *)
CompleteWellFormed(q) ==
    /\ IsObject(q)
    /\ MissingOf(q) = {}
    /\ \A k \in RequiredKeySet : ObjectOf(q)[k].py = "str"

(* the field of GeneratedDocuments that a required key names *)
DocumentField(q, k) == q.response.documents.v[k[1]]

FourFieldSuccess(q) ==
    /\ q.response.kind = "success"
    /\ q.response.status_code = 200
    /\ IsSome(q.response.documents)
    /\ DOMAIN q.response.documents.v = {k[1] : k \in RequiredKeySet}

(* the blocks that follow `label` up to the end of its line *)
Slot(narrative, label) ==
    LET i == CHOOSE i \in 1..Len(narrative) : narrative[i] = label
        j == CHOOSE j \in (i + 1)..Len(narrative) :
                /\ narrative[j] = "\n"
                /\ \A m \in (i + 1)..(j - 1) : narrative[m] # "\n"
    IN  SubSeq(narrative, i + 1, j - 1)

(* the blocks between the beneficiary label and the closing parenthesis *)
BeneficiarySlot(narrative) ==
    LET i == CHOOSE i \in 1..Len(narrative) : narrative[i] = BeneficiaryLabel
        j == CHOOSE j \in (i + 1)..Len(narrative) :
                /\ narrative[j] = ")"
                /\ \A m \in (i + 1)..(j - 1) : narrative[m] # ")"
    IN  strip(SubSeq(narrative, i + 1, j - 1))

(* ------------------------------------------------------------------ *)
(* Properties                                                          *)
(* ------------------------------------------------------------------ *)

(* C1: a validated request without a beneficiary, once the handler has  *)
(* run, has a composed narrative and one external call issued, and if   *)
(* the service answered with a complete well-formed object the request  *)
(* succeeded with a four-field result; it never ends in an unhandled    *)
(* exception.  (Violated: composing the narrative raises on None.)      *)
C1_NoBeneficiaryStillSucceeds ==
    \A r \in RequestIds :
        LET q == requests[r] IN
        (HandlerRan(q) /\ q.report_data.v.beneficiary.py = "None") =>
            /\ IsSome(q.user_prompt_content)
            /\ Len(q.calls) = 1
            /\ q.response.kind # "unhandled_exception"
            /\ (CompleteWellFormed(q) => FourFieldSuccess(q))

(* C2: for a scamType that is no key of PROMPT_MAPPING the handler      *)
(* selects OTHER_SCAMS_SYSTEM_PROMPT and goes on to the external call   *)
(* with it; the request gets no 4xx and raises nothing.  (Violated for  *)
(* a report without beneficiary: see C1, C8.)                           *)
C2_UnknownCategoryProceedsToCall ==
    \A r \in RequestIds :
        LET q == requests[r] IN
        (HandlerRan(q) /\ q.report_data.v.scamType.s \notin DOMAIN PROMPT_MAPPING) =>
            /\ q.selected_system_prompt = Some(OTHER_SCAMS_SYSTEM_PROMPT)
            /\ Len(q.calls) = 1
            /\ q.calls[1].messages[1].content = OTHER_SCAMS_SYSTEM_PROMPT
            /\ q.response.status_code \notin 400..499
            /\ q.response.kind # "unhandled_exception"

(* C3: when the content of the external response is not valid JSON the  *)
(* request ends with HTTP 500 "AI response format error ..." and        *)
(* carries no documents.                                                *)
C3_NotJsonIsFormatError ==
    \A r \in RequestIds :
        LET q == requests[r] IN
        (HasContent(q) /\ ContentOf(q) \in NotJsonDocuments) =>
            /\ q.response.kind = "http_exception"
            /\ q.response.status_code = 500
            /\ q.response.detail =
                   <<"AI response format error. The AI did not return valid JSON.">>
            /\ IsNone(q.response.documents)

C3_Witness ==
    \E r \in RequestIds :
        /\ HasContent(requests[r])
        /\ ContentOf(requests[r]) \in NotJsonDocuments
        /\ ContentOf(requests[r]) # <<>>
        /\ requests[r].response.status_code = 500

(* the required keys, in order, that `detail` names after its prefix *)
KeysNamed(detail) ==
    {k \in RequiredKeySet : IsSubSeq(k, SubSeq(detail, 2, Len(detail)))}

(* C4: when the content is a JSON object lacking a non-empty set M of   *)
(* the four required keys, the request ends with HTTP 500 whose detail  *)
(* is the "Missing:" message listing exactly the keys of M, in the      *)
(* order of required_keys, separated by ", ".                           *)
C4_MissingKeysAreNamed ==
    \A r \in RequestIds :
        LET q == requests[r] IN
        (IsObject(q) /\ MissingOf(q) # {}) =>
            /\ q.response.kind = "http_exception"
            /\ q.response.status_code = 500
            /\ q.response.detail[1] =
                   "AI response did not contain all required document fields. Missing: "
            /\ KeysNamed(q.response.detail) = MissingOf(q)
            /\ Len(q.response.detail) = 2 * Cardinality(MissingOf(q))
            /\ IsNone(q.response.documents)

C4_Witness ==
    \E r \in RequestIds :
        /\ IsObject(requests[r])
        /\ MissingOf(requests[r]) = {Text("bank_complaint_email")}
        /\ requests[r].response.detail =
               <<"AI response did not contain all required document fields. Missing: ",
                 "bank_complaint_email">>

(* C5: when the content is a JSON object with all four required keys    *)
(* and str values, the request succeeds and each field of the result is *)
(* the JSON value of its key, block for block.                          *)
C5_FieldsEqualJsonValues ==
    \A r \in RequestIds :
        LET q == requests[r] IN
        CompleteWellFormed(q) =>
            /\ FourFieldSuccess(q)
            /\ \A k \in RequiredKeySet : DocumentField(q, k) = ObjectOf(q)[k].s

C5_Witness ==
    \E r \in RequestIds :
        /\ CompleteWellFormed(requests[r])
        /\ ObjectOf(requests[r])[Text("bank_complaint_email")].s =
               <<"  ", "Dear Sir/Madam, ...", "\n">>
        /\ requests[r].response.documents.v.bank_complaint_email =
               <<"  ", "Dear Sir/Madam, ...", "\n">>

(* C6: a request succeeds only if the content parsed to an object that  *)
(* has all four required keys, none of them null; and every field of a  *)
(* returned result is the value the object carries for it, never a      *)
(* default.                                                             *)
C6_AllOrNothing ==
    \A r \in RequestIds :
        LET q == requests[r] IN
        (q.response.kind = "success") =>
            /\ IsObject(q)
            /\ MissingOf(q) = {}
            /\ \A k \in RequiredKeySet : ObjectOf(q)[k].py # "None"
            /\ FourFieldSuccess(q)
            /\ \A k \in RequiredKeySet : PyStr(DocumentField(q, k)) = ObjectOf(q)[k]

C6_Witness ==
    \E r \in RequestIds :
        /\ IsObject(requests[r])
        /\ MissingOf(requests[r]) = {}
        /\ \E k \in RequiredKeySet : ObjectOf(requests[r])[k].py = "None"
        /\ requests[r].response.kind = "http_exception"
        /\ IsNone(requests[r].response.documents)

(* C7: every validated request that ends without success ends with an   *)
(* HTTPException of status 500 raised by the pipeline; none ends with   *)
(* an exception that left the handler.  (Violated: see C8.)             *)
C7_EveryFailureIsCaught ==
    \A r \in RequestIds :
        LET q == requests[r] IN
        (Validated(q) /\ q.pc = "done" /\ q.response.kind # "success") =>
            /\ q.response.kind = "http_exception"
            /\ q.response.status_code = 500

(* C8: for every validated report the narrative is composed, and each   *)
(* absent optional field (amount, paymentMethod, currency, beneficiary) *)
(* has exactly "Not specified" in its slot; no optional slot is empty.  *)
(* (Violated: with beneficiary None the f-string raises.)               *)
C8_NotSpecifiedForAbsent ==
    \A r \in RequestIds :
        LET q == requests[r] IN
        HandlerRan(q) =>
            /\ IsSome(q.user_prompt_content)
            /\ LET n == q.user_prompt_content.v
                   rd == q.report_data.v
               IN  /\ rd.amount.py = "None" => Slot(n, AmountLabel) = <<"Not specified">>
                   /\ rd.paymentMethod.py = "None" =>
                          Slot(n, PaymentMethodLabel) = <<"Not specified">>
                   /\ rd.currency.py = "None" => Slot(n, CurrencyLabel) = <<"Not specified">>
                   /\ rd.beneficiary.py = "None" => BeneficiarySlot(n) = <<"Not specified">>
                   /\ Slot(n, AmountLabel) # <<>>
                   /\ Slot(n, PaymentMethodLabel) # <<>>
                   /\ Slot(n, CurrencyLabel) # <<>>
                   /\ BeneficiarySlot(n) # <<>>

(* a body that lacks a mandatory field or carries a value of the wrong  *)
(* shape for a field                                                    *)
Malformed(body) ==
    \/ \E f \in MandatoryFields : f \notin DOMAIN body \/ body[f].py # "str"
    \/ "amount" \in DOMAIN body /\ body["amount"].py # "float"
    \/ \E f \in {"currency", "paymentMethod"} : f \in DOMAIN body /\ body[f].py # "str"
    \/ /\ "beneficiary" \in DOMAIN body
       /\ \/ body["beneficiary"].py # "dict"
          \/ \E f \in {"name", "bank", "account"} :
                \/ f \notin DOMAIN body["beneficiary"].m
                \/ body["beneficiary"].m[f].py # "str"

(* C9: a malformed body is answered with the validation error (422);    *)
(* for it no report is built, no template is resolved, no narrative is  *)
(* composed and no external call is issued.                             *)
C9_MalformedIsRejectedEarly ==
    \A r \in RequestIds :
        LET q == requests[r] IN
        (IsSome(q.body) /\ Malformed(q.body.v)) =>
            /\ q.pc = "done"
            /\ q.response.kind = "validation_error"
            /\ q.response.status_code = 422
            /\ IsNone(q.report_data)
            /\ IsNone(q.selected_system_prompt)
            /\ IsNone(q.user_prompt_content)
            /\ q.calls = <<>>
            /\ IsNone(q.completion)

C9_Witness ==
    \E r \in RequestIds :
        /\ IsSome(requests[r].body)
        /\ "description" \notin DOMAIN requests[r].body.v
        /\ requests[r].response.status_code = 422
        /\ requests[r].calls = <<>>

(* C10 as claimed: every report that reaches template resolution has    *)
(* non-empty values for the seven mandatory fields, and a body with an  *)
(* empty-string mandatory field is rejected at validation.              *)
C10_MandatoryNonEmpty ==
    \A r \in RequestIds :
        LET q == requests[r] IN
        /\ IsSome(q.selected_system_prompt) =>
              \A f \in MandatoryFields :
                  q.report_data.v[f].py = "str" /\ q.report_data.v[f].s # <<>>
        /\ (IsSome(q.body) /\ \E f \in MandatoryFields \cap DOMAIN q.body.v :
                                  q.body.v[f] = PyStr(<<>>)) =>
              q.response.kind = "validation_error"

(* C10 amended: every report that reaches template resolution has, for  *)
(* each of the seven mandatory fields, the str the body carried for it  *)
(* (possibly the empty str); a body whose mandatory fields are all strs *)
(* is not rejected on their account, empty or not.                      *)
C10_MandatoryArePresentStrings ==
    \A r \in RequestIds :
        LET q == requests[r] IN
        /\ IsSome(q.selected_system_prompt) =>
              \A f \in MandatoryFields :
                  /\ f \in DOMAIN q.body.v
                  /\ q.body.v[f].py = "str"
                  /\ q.report_data.v[f] = q.body.v[f]
        /\ (IsSome(q.body) /\ ~Malformed(q.body.v)) =>
              /\ q.response.kind # "validation_error"
              /\ Validated(q)

C10_Witness ==
    \E r \in RequestIds :
        /\ requests[r].pc = "awaiting"
        /\ requests[r].body.v["name"] = PyStr(<<>>)
        /\ requests[r].report_data.v.name = PyStr(<<>>)
        /\ Len(requests[r].calls) = 1

(* C11: with several requests in flight, every request issues at most   *)
(* one external call; a request still waiting has exactly the one call  *)
(* it awaits; a finished request whose narrative was composed was       *)
(* answered from one call and one completion of its own, whatever other *)
(* requests with the same body received; and a request whose call       *)
(* failed ended with an HTTP error after that single call.              *)
C11_AtMostOneCallNoReuse ==
    \A r \in DOMAIN requests :
        LET q == requests[r] IN
        /\ Len(q.calls) <= 1
        /\ (q.pc = "awaiting") => (Len(q.calls) = 1 /\ IsNone(q.completion))
        /\ (q.pc = "done" /\ IsSome(q.user_prompt_content)) =>
              (Len(q.calls) = 1 /\ IsSome(q.completion))
        /\ (q.pc = "done" /\ IsSome(q.completion) /\ q.response.kind # "success") =>
              /\ q.response.kind = "http_exception"
              /\ q.response.status_code = 500
              /\ Len(q.calls) = 1
        /\ (q.response.kind \in {"success", "http_exception"}) => IsSome(q.completion)

(* two requests with the same body, both finished, each after one call *)
(* of its own: one succeeded, the other failed                          *)
C11_Witness ==
    \E a, b \in DOMAIN requests :
        /\ a # b
        /\ requests[a].pc = "done" /\ requests[b].pc = "done"
        /\ requests[a].body = requests[b].body
        /\ requests[a].response.kind = "success"
        /\ requests[b].response.kind = "http_exception"
        /\ Len(requests[a].calls) = 1 /\ Len(requests[b].calls) = 1

(* the request is over after its call raised or returned something that *)
(* is neither a success, nor a body json.loads rejects, nor an object   *)
(* lacking required keys                                                *)
OtherFailure(q) ==
    /\ q.pc = "done"
    /\ IsSome(q.completion)
    /\ q.response.kind # "success"
    /\ ~(HasContent(q) /\ ContentOf(q) \in NotJsonDocuments)
    /\ ~(IsObject(q) /\ MissingOf(q) # {})

(* the lines a request printed that carry a raw response *)
RawLogged(q) == {q.printed[i].raw.v : i \in {j \in 1..Len(q.printed) : IsSome(q.printed[j].raw)}}

(* C12: a request whose external call raised, or returned a response    *)
(* object without choices or without content, or content that parses    *)
(* but cannot be packaged, ends with HTTP 500 whose detail is "An       *)
(* unexpected error occurred while generating documents via AI: "       *)
(* followed by the text of the exception (for a raised call: the text   *)
(* of that exception); the raw content is printed when content had been *)
(* received, and no raw content is printed when none had been.          *)
C12_OtherFailureIsInvocationError ==
    \A r \in RequestIds :
        LET q == requests[r] IN
        OtherFailure(q) =>
            /\ q.response.kind = "http_exception"
            /\ q.response.status_code = 500
            /\ IsNone(q.response.documents)
            /\ Len(q.response.detail) > 1
            /\ SubSeq(q.response.detail, 1, 1) =
                  <<"An unexpected error occurred while generating documents via AI: ">>
            /\ (q.completion.v.kind = "raises") =>
                  SubSeq(q.response.detail, 2, Len(q.response.detail)) = q.completion.v.exc.msg
            /\ IF HasContent(q)
               THEN RawLogged(q) = {PyStr(ContentOf(q))}
               ELSE RawLogged(q) = {}

(* a call that raised: the cause is in the detail, nothing raw is logged *)
C12_Witness ==
    \E r \in RequestIds :
        /\ OtherFailure(requests[r])
        /\ requests[r].completion.v.kind = "raises"
        /\ requests[r].response.detail =
              <<"An unexpected error occurred while generating documents via AI: ",
                "Error code: 429">>
        /\ RawLogged(requests[r]) = {}

(* C13: with several requests in flight and their steps interleaved in  *)
(* any order, two requests with the same body that stand at the same    *)
(* point and, once resumed, received the same completion, agree in      *)
(* everything (template, narrative, call, printed lines, response); and *)
(* every step changes the record of one request only and leaves the     *)
(* registry shared by all requests as it was.                           *)
C13_RequestsShareNoState ==
    /\ [](\A a, b \in DOMAIN requests :
            (/\ requests[a].body = requests[b].body
             /\ requests[a].pc = requests[b].pc
             /\ requests[a].completion = requests[b].completion)
            => requests[a] = requests[b])
    /\ [][/\ prompt_mapping' = prompt_mapping
          /\ \A a, b \in DOMAIN requests :
                (requests'[a] # requests[a] /\ a # b) => requests'[b] = requests[b]]_vars

(* one request already answered while another with the same body is     *)
(* still suspended at its external call                                 *)
C13_Witness ==
    \E a, b \in DOMAIN requests :
        /\ requests[a].pc = "done" /\ IsSome(requests[a].completion)
        /\ requests[b].pc = "awaiting"
        /\ requests[a].body = requests[b].body
        /\ requests[a].calls = requests[b].calls

(* request a carries an unregistered scamType and request b the same    *)
(* report under the literal fallback category; both stand at the same   *)
(* point and, once resumed, received the same completion                *)
UnknownAndFallbackPair(a, b) ==
    /\ IsSome(requests[a].body) /\ IsSome(requests[b].body)
    /\ "scamType" \in DOMAIN requests[a].body.v
    /\ requests[a].body.v["scamType"].py = "str"
    /\ requests[a].body.v["scamType"].s \notin DOMAIN PROMPT_MAPPING
    /\ requests[b].body.v =
          [requests[a].body.v EXCEPT !["scamType"] = PyStr(Text("Other Unspecified Scam"))]
    /\ requests[a].pc = requests[b].pc
    /\ requests[a].completion = requests[b].completion

(* C14 as claimed: a request with an unregistered scamType and the same *)
(* report submitted as 'Other Unspecified Scam' follow the same path    *)
(* (same response, same printed lines) and send the same arguments to   *)
(* the external service.                                                *)
C14_UnknownSameAsFallback ==
    \A a, b \in DOMAIN requests :
        UnknownAndFallbackPair(a, b) =>
            /\ requests[a].response = requests[b].response
            /\ requests[a].printed = requests[b].printed
            /\ requests[a].selected_system_prompt = requests[b].selected_system_prompt
            /\ requests[a].calls = requests[b].calls

(* C14 amended: the two requests follow the same path (same response,   *)
(* same printed lines, a call issued by both or by neither) and send    *)
(* the same system message and the same call parameters; their user     *)
(* messages differ in one place only, the category named in the opening *)
(* sentence, where each carries the scamType its own report submitted.  *)
C14_UnknownSameAsFallbackButName ==
    \A a, b \in DOMAIN requests :
        UnknownAndFallbackPair(a, b) =>
            /\ requests[a].response = requests[b].response
            /\ requests[a].printed = requests[b].printed
            /\ requests[a].selected_system_prompt = requests[b].selected_system_prompt
            /\ Len(requests[a].calls) = Len(requests[b].calls)
            /\ \A i \in 1..Len(requests[a].calls) :
                  LET ca == requests[a].calls[i]
                      cb == requests[b].calls[i]
                      ua == ca.messages[2].content
                      ub == cb.messages[2].content
                  IN  /\ [ca EXCEPT !.messages = <<>>] = [cb EXCEPT !.messages = <<>>]
                      /\ Len(ca.messages) = 2 /\ Len(cb.messages) = 2
                      /\ ca.messages[1] = cb.messages[1]
                      /\ ca.messages[1].content = OTHER_SCAMS_SYSTEM_PROMPT
                      /\ ca.messages[2].role = cb.messages[2].role
                      /\ Len(ua) = Len(ub)
                      /\ ua[3] = requests[a].body.v["scamType"].s[1]
                      /\ ub[3] = "Other Unspecified Scam"
                      /\ \A j \in 1..Len(ua) : j # 3 => ua[j] = ub[j]

(* both requests answered with success after one call each *)
C14_Witness ==
    \E a, b \in DOMAIN requests :
        /\ UnknownAndFallbackPair(a, b)
        /\ requests[a].pc = "done"
        /\ requests[a].response.kind = "success"
        /\ requests[b].response.kind = "success"
        /\ Len(requests[a].calls) = 1 /\ Len(requests[b].calls) = 1

(* the detail block written for each registered category *)
OwnDetails ==
    (Text("Phishing Scam") :> PHISHING_SCAM_SYSTEM_PROMPT_DETAILS)
    @@ (Text("Romance Scam") :> ROMANCE_SCAM_SYSTEM_PROMPT_DETAILS)
    @@ (Text("Online Marketplace Scam") :> ONLINE_MARKETPLACE_SCAM_SYSTEM_PROMPT_DETAILS)
    @@ (Text("Investment or Cryptocurrency Scam") :> INVESTMENT_CRYPTO_SCAM_SYSTEM_PROMPT_DETAILS)
    @@ (Text("Fake Job Offer Scam") :> JOB_OFFER_SCAM_SYSTEM_PROMPT_DETAILS)
    @@ (Text("Tech Support Scam") :> TECH_SUPPORT_SCAM_SYSTEM_PROMPT_DETAILS)
    @@ (Text("Fake Loan or Grant Scam") :> FAKE_LOAN_GRANT_SCAM_SYSTEM_PROMPT_DETAILS)
    @@ (Text("Social Media Impersonation Scam") :> SOCIAL_MEDIA_IMPERSONATION_SCAM_SYSTEM_PROMPT_DETAILS)
    @@ (Text("Subscription Trap Scam") :> SUBSCRIPTION_TRAP_SCAM_SYSTEM_PROMPT_DETAILS)
    @@ (Text("Fake Charity Scam (Online)") :> FAKE_CHARITY_SCAM_SYSTEM_PROMPT_DETAILS)
    @@ (Text("Delivery/Logistics Scam") :> DELIVERY_LOGISTICS_SCAM_SYSTEM_PROMPT_DETAILS)
    @@ (Text("Fake Online Course or Certification Scam") :> ONLINE_COURSE_CERTIFICATION_SCAM_SYSTEM_PROMPT_DETAILS)
    @@ (Text("ATM Card Skimming") :> ATM_CARD_SKIMMING_SCAM_SYSTEM_PROMPT_DETAILS)
    @@ (Text("Pickpocketing with Distraction") :> PICKPOCKETING_SCAM_SYSTEM_PROMPT_DETAILS)
    @@ (Text("Real Estate/Hostel Scam (Fake Agent)") :> REAL_ESTATE_HOSTEL_SCAM_SYSTEM_PROMPT_DETAILS)
    @@ (Text("Fake Police or Official Impersonation") :> FAKE_POLICE_OFFICIAL_IMPERSONATION_SCAM_SYSTEM_PROMPT_DETAILS)
    @@ (Text("POS Machine Tampering") :> POS_MACHINE_TAMPERING_SCAM_SYSTEM_PROMPT_DETAILS)
    @@ (Text("Lottery or You`'ve Won! Scam") :> LOTTERY_OR_YOUVE_WON_SCAM_SYSTEM_PROMPT_DETAILS)
    @@ (Text("Fake Product or Vendor (In-Person)") :> FAKE_PRODUCT_VENDOR_INPERSON_SCAM_SYSTEM_PROMPT_DETAILS)
    @@ (Text("Bus/Transport Scam (One Chance)") :> BUS_TRANSPORT_SCAM_SYSTEM_PROMPT_DETAILS)
    @@ (Text("Fake Bank Alert Scam") :> FAKE_BANK_ALERT_SCAM_SYSTEM_PROMPT_DETAILS)
    @@ (Text("Donation Scam (In-Person)") :> DONATION_INPERSON_SCAM_SYSTEM_PROMPT_DETAILS)
    @@ (Text("Other Unspecified Scam") :> OTHER_SCAMS_SYSTEM_PROMPT_DETAILS)

(* C15: PROMPT_MAPPING registers 23 category identifiers; for a request *)
(* of any of them the handler selects, and sends as the system message, *)
(* exactly the shared base block followed by that category's own detail *)
(* block: a non-blank template, selected without the fallback warning,  *)
(* and different from the template of every other registered category.  *)
C15_RegisteredResolveToOwnTemplate ==
    /\ Cardinality(DOMAIN prompt_mapping) = 23
    /\ \A r \in RequestIds :
        LET q == requests[r]
            k == q.report_data.v.scamType.s
        IN  (IsSome(q.selected_system_prompt) /\ k \in DOMAIN OwnDetails) =>
                /\ q.selected_system_prompt.v = BASE_SYSTEM_PROMPT_STRUCTURE \o OwnDetails[k]
                /\ strip(q.selected_system_prompt.v) # <<>>
                /\ q.printed = <<>> \/ q.printed[1].text # "Warning: System prompt is empty or invalid"
                /\ \A c \in 1..Len(q.calls) :
                      q.calls[c].messages[1].content = q.selected_system_prompt.v
                /\ \A other \in DOMAIN OwnDetails \ {k} :
                      /\ q.selected_system_prompt.v # BASE_SYSTEM_PROMPT_STRUCTURE \o OwnDetails[other]
                      /\ q.selected_system_prompt.v # prompt_mapping[other]

(* the category whose key carries the typographic apostrophe, resolved *)
(* to the lottery template and sent                                     *)
C15_Witness ==
    \E r \in RequestIds :
        /\ requests[r].pc = "awaiting"
        /\ requests[r].report_data.v.scamType.s = Text("Lottery or You`'ve Won! Scam")
        /\ requests[r].calls[1].messages[1].content =
              BASE_SYSTEM_PROMPT_STRUCTURE \o LOTTERY_OR_YOUVE_WON_SCAM_SYSTEM_PROMPT_DETAILS

(* identifiers one letter case or one character away from a registered  *)
(* one                                                                  *)
NearMissScamTypes ==
    {Text("phishing scam"), Text("PHISHING SCAM"), Text("Phishing scam"),
     Text("Lottery or You've Won! Scam"), Text("Phishing Scam ")}

(* C16: a request whose scamType differs from a registered identifier   *)
(* only in letter case or in one character is unmatched: the handler    *)
(* selects OTHER_SCAMS_SYSTEM_PROMPT, issues the call with it, and the  *)
(* request ends neither in a 4xx nor in an unhandled exception; with a  *)
(* complete well-formed answer it succeeds.  (Violated for a report     *)
(* without beneficiary: see C1, C8.)                                    *)
C16_NearMissFallsBackAndSucceeds ==
    \A r \in RequestIds :
        LET q == requests[r] IN
        (HandlerRan(q) /\ q.report_data.v.scamType.s \in NearMissScamTypes) =>
            /\ q.selected_system_prompt = Some(OTHER_SCAMS_SYSTEM_PROMPT)
            /\ Len(q.calls) = 1
            /\ q.calls[1].messages[1].content = OTHER_SCAMS_SYSTEM_PROMPT
            /\ q.response.status_code \notin 400..499
            /\ q.response.kind # "unhandled_exception"
            /\ (CompleteWellFormed(q) => FourFieldSuccess(q))

(* the request ended in a failure of invoke_ai_document_generation *)
InvokeFailed(q) ==
    q.pc = "done" /\ q.response.kind \in {"http_exception", "unhandled_exception"}

(* C17 as claimed: whenever invoke_ai_document_generation fails, a line *)
(* carrying the raw external response has been printed by the time the  *)
(* error is returned.                                                   *)
C17_EveryFailureLogsRaw ==
    \A r \in RequestIds :
        LET q == requests[r] IN
        InvokeFailed(q) => RawLogged(q) # {}

(* C17 amended: a failure after the external call has printed at least  *)
(* one diagnostic line by the time the error is returned.  For a body   *)
(* that is not JSON it is one line carrying the raw content.  For an    *)
(* object lacking required keys it is one line naming keys, without the *)
(* raw content.  For any other exception it is the error line, followed *)
(* by a line with the raw content exactly when content was received.    *)
(* A failure raised while the narrative is composed, before the call,   *)
(* prints nothing.                                                      *)
C17_FailureLogsByPath ==
    \A r \in RequestIds :
        LET q == requests[r] IN
        InvokeFailed(q) =>
            IF q.response.kind = "unhandled_exception"
            THEN q.printed = <<>> /\ q.calls = <<>>
            ELSE /\ Len(q.printed) >= 1
                 /\ IF HasContent(q) /\ ContentOf(q) \in NotJsonDocuments
                    THEN q.printed = <<[text |-> "AI response was not valid JSON",
                                        raw |-> Some(PyStr(ContentOf(q)))]>>
                    ELSE IF IsObject(q) /\ MissingOf(q) # {}
                    THEN q.printed = <<[text |-> "AI response missing required keys",
                                        raw |-> NoneVal]>>
                    ELSE /\ q.printed[1] = [text |-> "Error during AI document generation",
                                            raw |-> NoneVal]
                         /\ IF HasContent(q)
                            THEN /\ Len(q.printed) = 2
                                 /\ q.printed[2].raw = Some(PyStr(ContentOf(q)))
                            ELSE Len(q.printed) = 1

(* an object lacking keys: one line printed, and it carries no raw content *)
C17_Witness ==
    \E r \in RequestIds :
        /\ InvokeFailed(requests[r])
        /\ IsObject(requests[r]) /\ MissingOf(requests[r]) # {}
        /\ Len(requests[r].printed) = 1
        /\ RawLogged(requests[r]) = {}

(* the request received content that json.loads rejects *)
GotNotJson(q) == HasContent(q) /\ ContentOf(q) \in NotJsonDocuments

(* C18: whatever two bodies that are not JSON two requests received,    *)
(* and whatever their own reports, both get the same HTTP response: 500 *)
(* with the fixed detail "AI response format error. The AI did not      *)
(* return valid JSON." and nothing else; neither the raw content nor    *)
(* the parser's message about it is part of the response.  The raw      *)
(* content of each is in that request's printed line, and only there.   *)
C18_FormatErrorIsTheSameForAll ==
    \A a, b \in DOMAIN requests :
        (GotNotJson(requests[a]) /\ GotNotJson(requests[b])) =>
            /\ requests[a].response = requests[b].response
            /\ requests[a].response =
                  [kind |-> "http_exception", status_code |-> 500,
                   detail |-> <<"AI response format error. The AI did not return valid JSON.">>,
                   documents |-> NoneVal]
            /\ RawLogged(requests[a]) = {PyStr(ContentOf(requests[a]))}

(* two requests that received different non-JSON bodies *)
C18_Witness ==
    \E a, b \in DOMAIN requests :
        /\ GotNotJson(requests[a]) /\ GotNotJson(requests[b])
        /\ ContentOf(requests[a]) # ContentOf(requests[b])
        /\ requests[a].body # requests[b].body
        /\ requests[a].response = requests[b].response
        /\ RawLogged(requests[a]) # RawLogged(requests[b])

(* the template the registry holds for a category, or the fallback *)
ResolvedTemplate(scamType) ==
    IF scamType \in DOMAIN PROMPT_MAPPING THEN PROMPT_MAPPING[scamType]
    ELSE OTHER_SCAMS_SYSTEM_PROMPT

(* C19: every call a request issued carries exactly two messages, the   *)
(* first of role system and the second of role user; the system content *)
(* is the template resolved for the report's scamType, block for block, *)
(* whatever the rest of the report says; the user content is the        *)
(* narrative composed for the report, which opens with the fixed        *)
(* sentence and the scamType; and the call asks for model gpt-4o,       *)
(* response_format json_object, temperature 0.6 and max_tokens 4090.    *)
C19_CallCarriesSystemThenUser ==
    \A r \in RequestIds :
        LET q == requests[r] IN
        \A i \in 1..Len(q.calls) :
            LET c == q.calls[i] IN
            /\ Len(c.messages) = 2
            /\ c.messages[1].role = "system"
            /\ c.messages[2].role = "user"
            /\ c.messages[1].content = ResolvedTemplate(q.report_data.v.scamType.s)
            /\ c.messages[1].content = q.selected_system_prompt.v
            /\ c.messages[2].content = q.user_prompt_content.v
            /\ SubSeq(c.messages[2].content, 1, 2 + Len(q.report_data.v.scamType.s)) =
                  <<"\n", "A user in Nigeria has been a victim of a ">>
                  \o q.report_data.v.scamType.s
            /\ c.response_format = [type |-> "json_object"]
            /\ c.model = "gpt-4o"
            /\ c.temperature_tenths = 6
            /\ c.max_tokens = 4090

(* a call issued for a Romance Scam report that states an amount *)
C19_Witness ==
    \E r \in RequestIds :
        /\ requests[r].pc = "awaiting"
        /\ Len(requests[r].calls) = 1
        /\ requests[r].report_data.v.amount = PyFloat(50000)
        /\ requests[r].calls[1].messages[1] =
              [role |-> "system", content |-> ROMANCE_SCAM_SYSTEM_PROMPT]
        /\ requests[r].calls[1].messages[2].role = "user"

(* C20: whatever requests have arrived, resolved their template, been   *)
(* suspended, succeeded or failed, in whatever order, the dict          *)
(* PROMPT_MAPPING in memory is the one built at import: the same 23     *)
(* keys, each with the template it was given, and the fallback template *)
(* is still the value of its own key; a lookup of an unregistered       *)
(* scamType has added no key.                                           *)
C20_RegistryNeverChanges ==
    /\ prompt_mapping = PROMPT_MAPPING
    /\ DOMAIN prompt_mapping = DOMAIN OwnDetails
    /\ \A k \in DOMAIN prompt_mapping :
          prompt_mapping[k] = BASE_SYSTEM_PROMPT_STRUCTURE \o OwnDetails[k]
    /\ \A r \in DOMAIN requests :
          (IsSome(requests[r].selected_system_prompt)
           /\ requests[r].report_data.v.scamType.s \notin DOMAIN OwnDetails)
          => requests[r].report_data.v.scamType.s \notin DOMAIN prompt_mapping

(* one request of an unregistered category has succeeded and another,  *)
(* of a registered one, has failed: the registry is as it was built    *)
C20_Witness ==
    \E a, b \in DOMAIN requests :
        /\ requests[a].pc = "done" /\ requests[b].pc = "done"
        /\ requests[a].response.kind = "success"
        /\ requests[a].report_data.v.scamType.s = Text("Nonexistent Category")
        /\ requests[b].response.kind = "http_exception"
        /\ requests[b].report_data.v.scamType.s = Text("Phishing Scam")
        /\ prompt_mapping = PROMPT_MAPPING

(* C21: two requests whose validated reports agree field for field have *)
(* the same template selected and the same narrative composed, and the  *)
(* calls they issued carry the same system and user strings, however    *)
(* far either request has come, whichever was handled first and         *)
(* whatever other requests were handled before or in between.           *)
C21_CompositionIsDeterministic ==
    \A a, b \in DOMAIN requests :
        LET p == requests[a]
            q == requests[b]
        IN  (/\ IsSome(p.selected_system_prompt) /\ IsSome(q.selected_system_prompt)
             /\ p.report_data = q.report_data)
            => /\ p.selected_system_prompt = q.selected_system_prompt
               /\ p.user_prompt_content = q.user_prompt_content
               /\ \A i \in 1..Len(p.calls) : \A j \in 1..Len(q.calls) :
                     p.calls[i].messages = q.calls[j].messages

(* the same report composed twice: one request already failed, the     *)
(* other is still waiting for its call                                 *)
C21_Witness ==
    \E a, b \in DOMAIN requests :
        /\ a # b
        /\ requests[a].report_data = requests[b].report_data
        /\ requests[a].pc = "done" /\ requests[a].response.kind = "http_exception"
        /\ requests[b].pc = "awaiting"
        /\ requests[a].calls[1].messages = requests[b].calls[1].messages

(* request r is a render request: its body carries the three text fields *)
IsRender(q) == IsSome(q.body) /\ q.body.v \in PdfBodies

C23_OneClientCreatedAtStartup ==
    /\ process.created <= 1
    /\ (process.status = "serving") =>
          /\ process.created = 1
          /\ IsSome(process.api_key)
          /\ process.api_key.v.py = "str" /\ process.api_key.v.s # <<>>
          /\ process.client = Some([api_key |-> process.api_key.v])
    /\ (IsSome(process.api_key) /\ process.api_key.v \in {PyNone, PyStr(<<>>)}) =>
          process.status = "failed"
    /\ (process.status # "serving") =>
          /\ process.created = 0 /\ IsNone(process.client)
          /\ \A r \in DOMAIN requests : requests[r] = NewRequest
    /\ \A r \in DOMAIN requests :
          /\ (requests[r].calls # <<>>) =>
                (IsSome(requests[r].client) /\ requests[r].client = process.client)
          /\ IsSome(requests[r].client) => requests[r].client = process.client

(* two requests have issued their calls through the one client *)
C23_Witness ==
    \E a, b \in DOMAIN requests :
        /\ a # b
        /\ requests[a].calls # <<>> /\ requests[b].calls # <<>>
        /\ requests[a].client = process.client
        /\ requests[b].client = process.client
        /\ process.created = 1

(* the request ended with the error of the required-key check *)
KeyCheckFailed(q) ==
    /\ q.response.kind = "http_exception"
    /\ q.response.detail # <<>>
    /\ q.response.detail[1] =
          "AI response did not contain all required document fields. Missing: "

(* the content the request received parses as JSON *)
ContentParses(q) ==
    HasContent(q) /\ ParseValue(ContentOf(q)).ok /\ ParseValue(ContentOf(q)).rest = <<>>

(* C24: what a request holds shows the order of its steps.  A template  *)
(* is resolved only for a validated report; a narrative is composed     *)
(* only after a template was resolved; a call is issued only with the   *)
(* composed narrative in hand; a completion is processed only after the *)
(* call; the required-key check has spoken, and a result was packaged,  *)
(* only for content that parsed; a result was packaged only when no     *)
(* required key was missing.  A rejected body resolved nothing, a       *)
(* narrative that could not be composed issued no call, and content     *)
(* that did not parse was reported as a format error without any        *)
(* key-check line.                                                      *)
C24_StepsInOrder ==
    \A r \in RequestIds :
        LET q == requests[r] IN
        /\ IsSome(q.selected_system_prompt) =>
              (Validated(q) /\ FieldErrors(q.body.v) = {})
        /\ IsSome(q.user_prompt_content) => IsSome(q.selected_system_prompt)
        /\ (q.calls # <<>>) =>
              /\ IsSome(q.user_prompt_content)
              /\ q.calls[1].messages[2].content = q.user_prompt_content.v
        /\ IsSome(q.completion) => (q.calls # <<>> /\ q.pc = "done")
        /\ KeyCheckFailed(q) => (IsSome(q.completion) /\ ContentParses(q))
        /\ (q.response.kind = "success") =>
              (ContentParses(q) /\ IsObject(q) /\ MissingOf(q) = {})
        /\ (q.response.kind = "validation_error") =>
              (IsNone(q.selected_system_prompt) /\ q.calls = <<>>)
        /\ (q.response.kind = "unhandled_exception") =>
              (IsSome(q.selected_system_prompt) /\ IsNone(q.user_prompt_content)
               /\ q.calls = <<>>)
        /\ (HasContent(q) /\ ~ContentParses(q)) =>
              /\ ~KeyCheckFailed(q)
              /\ \A i \in 1..Len(q.printed) :
                    q.printed[i].text # "AI response missing required keys"

(* a request that went through every step but the last: its content   *)
(* parsed and the key check found keys missing                         *)
C24_Witness ==
    \E r \in RequestIds :
        /\ KeyCheckFailed(requests[r])
        /\ ContentParses(requests[r])
        /\ Len(requests[r].calls) = 1
        /\ IsSome(requests[r].user_prompt_content)

(* the opening of a narrative that names the scam type t *)
NarrativeOpening(t) ==
    <<"\n", "A user in Nigeria has been a victim of a ">> \o t \o <<".">>

(* text names the scam type t in its opening sentence *)
Names(text, t) ==
    /\ Len(text) >= Len(NarrativeOpening(t))
    /\ SubSeq(text, 1, Len(NarrativeOpening(t))) = NarrativeOpening(t)

(* C25: a handled request whose submitted scamType is not a key of    *)
(* the registry was given the fallback template, and the narrative    *)
(* composed for it, the one sent as the user message, names the       *)
(* submitted scamType verbatim and not the label of the fallback      *)
(* category, while the system message is the fallback template.       *)
C25_NarrativeNamesSubmittedType ==
    \A r \in RequestIds :
        LET q == requests[r]
            t == q.report_data.v.scamType.s
        IN  (HandlerRan(q) /\ t \notin DOMAIN PROMPT_MAPPING) =>
                /\ q.selected_system_prompt = Some(OTHER_SCAMS_SYSTEM_PROMPT)
                /\ IsSome(q.user_prompt_content) =>
                      /\ Names(q.user_prompt_content.v, t)
                      /\ ~Names(q.user_prompt_content.v, Text("Other Unspecified Scam"))
                /\ \A i \in 1..Len(q.calls) :
                      /\ q.calls[i].messages[1].content = OTHER_SCAMS_SYSTEM_PROMPT
                      /\ Names(q.calls[i].messages[2].content, t)
                      /\ ~Names(q.calls[i].messages[2].content, Text("Other Unspecified Scam"))

(* a call whose system message is the fallback template and whose user *)
(* message names a category the registry does not know                 *)
C25_Witness ==
    \E r \in RequestIds :
        /\ requests[r].pc = "done"
        /\ Len(requests[r].calls) = 1
        /\ requests[r].report_data.v.scamType.s = Text("Nonexistent Category")
        /\ requests[r].calls[1].messages[1].content = OTHER_SCAMS_SYSTEM_PROMPT
        /\ Names(requests[r].calls[1].messages[2].content, Text("Nonexistent Category"))

(* the content received parses as JSON to something that is no object *)
ParsedNonObject(q) == ContentParses(q) /\ ParseValue(ContentOf(q)).value.py # "dict"

(* the kinds of JSON value the content parsed to, over all requests *)
NonObjectKinds == {"list", "str", "int", "bool", "None"}

(* C26: a request whose external response parsed as JSON to an array, *)
(* a string, a number, a boolean or null ended in an HTTP 500 with no *)
(* documents and the detail of the unexpected-error handler, also     *)
(* when the array or the string contains all four required key names. *)
C26_NonObjectEndsIn500 ==
    \A r \in RequestIds :
        LET q == requests[r] IN
        ParsedNonObject(q) =>
            /\ ParseValue(ContentOf(q)).value.py \in NonObjectKinds
            /\ q.response.kind = "http_exception"
            /\ q.response.status_code = 500
            /\ q.response.documents = NoneVal
            /\ Len(q.response.detail) >= 1
            /\ q.response.detail[1] = UnexpectedDetailPrefix[1]

(* a string naming all four required keys passed the membership check *)
(* and still ended in the 500 of the unexpected-error handler          *)
C26_Witness ==
    \E r \in RequestIds :
        /\ ParsedNonObject(requests[r])
        /\ ParseValue(ContentOf(requests[r])).value.py = "str"
        /\ \A k \in RequiredKeySet : Contains(k, ParseValue(ContentOf(requests[r])).value)
        /\ requests[r].response.status_code = 500

(* what the narrative shows for an optional field holding v: the value *)
(* when it is truthy, "Not specified" when it is None, 0.0 or ""       *)
ShownFor(v) ==
    IF v.py = "None" \/ v = PyFloat(0) \/ v = PyStr(<<>>)
    THEN <<"Not specified">>
    ELSE Format(v)

(* C27: in every narrative composed, and in the user message sent,     *)
(* the amount, payment method and currency lines read "Not specified"  *)
(* when the field is 0.0 or "" exactly as when it was omitted, and     *)
(* show the value otherwise; the text 0.0 is never on the amount line. *)
C27_FalsyOptionalIsNotSpecified ==
    \A r \in RequestIds :
        LET q == requests[r] IN
        IsSome(q.user_prompt_content) =>
            LET n == q.user_prompt_content.v
                rd == q.report_data.v
            IN  /\ Slot(n, AmountLabel) = ShownFor(rd.amount)
                /\ Slot(n, PaymentMethodLabel) = ShownFor(rd.paymentMethod)
                /\ Slot(n, CurrencyLabel) = ShownFor(rd.currency)
                /\ Slot(n, AmountLabel) # <<"0.0">>
                /\ \A i \in 1..Len(q.calls) :
                      /\ Slot(q.calls[i].messages[2].content, AmountLabel) = ShownFor(rd.amount)
                      /\ Slot(q.calls[i].messages[2].content, PaymentMethodLabel)
                            = ShownFor(rd.paymentMethod)
                      /\ Slot(q.calls[i].messages[2].content, CurrencyLabel)
                            = ShownFor(rd.currency)

(* a report with a supplied amount of 0.0 went to the external service *)
(* with "Not specified" on its amount line                             *)
C27_Witness ==
    \E r \in RequestIds :
        /\ Len(requests[r].calls) = 1
        /\ requests[r].report_data.v.amount = PyFloat(0)
        /\ Slot(requests[r].calls[1].messages[2].content, AmountLabel) = <<"Not specified">>

(* a report with an empty-string currency or payment method went out  *)
(* with "Not specified" on that line                                   *)
C27_WitnessEmptyString ==
    \E r \in RequestIds :
        /\ Len(requests[r].calls) = 1
        /\ \/ /\ requests[r].report_data.v.currency = PyStr(<<>>)
              /\ Slot(requests[r].calls[1].messages[2].content, CurrencyLabel)
                    = <<"Not specified">>
           \/ /\ requests[r].report_data.v.paymentMethod = PyStr(<<>>)
              /\ Slot(requests[r].calls[1].messages[2].content, PaymentMethodLabel)
                    = <<"Not specified">>

(* the error kinds of the pipeline a response is an instance of: the   *)
(* format error, the missing-keys error, the unexpected error          *)
ErrorKindsOf(response) ==
    {k \in {"format", "missing", "unexpected"} :
        /\ response.kind = "http_exception"
        /\ response.status_code = 500
        /\ response.detail # <<>>
        /\ response.detail[1] =
              (CASE k = "format" -> FormatErrorDetail[1]
                 [] k = "missing" -> MissingDetailPrefix[1]
                 [] OTHER -> UnexpectedDetailPrefix[1])}

(* the missing-keys error reached the client as it was raised: status  *)
(* 500, the detail listing the missing keys, not the generic message   *)
MissingKeysReachClientUnchanged ==
    \A r \in RequestIds :
        LET q == requests[r] IN
        (IsObject(q) /\ MissingOf(q) # {}) =>
            /\ q.response = HTTPExceptionResponse(
                  HTTPException(500, MissingDetailPrefix
                      \o join(Text(", "), missing_keys(ParseValue(ContentOf(q)).value))))
            /\ ErrorKindsOf(q.response) = {"missing"}

(* C28: the missing-keys error reaches the client unchanged, and every *)
(* validated request that ended without success carries exactly one of *)
(* the three error kinds.  (Violated: a report without beneficiary     *)
(* ends with an exception that is none of the three, see C1 and C8.)   *)
C28_UnchangedAndOneOfThreeKinds ==
    /\ MissingKeysReachClientUnchanged
    /\ \A r \in RequestIds :
          LET q == requests[r] IN
          (Validated(q) /\ q.pc = "done" /\ q.response.kind # "success") =>
              Cardinality(ErrorKindsOf(q.response)) = 1

(* the part that holds: requests that failed after the external call   *)
(* was issued carry exactly one of the three kinds                     *)
OneOfThreeKindsAfterCall ==
    \A r \in RequestIds :
        LET q == requests[r] IN
        (q.pc = "done" /\ IsSome(q.completion) /\ q.response.kind # "success") =>
            Cardinality(ErrorKindsOf(q.response)) = 1

(* the outcomes of a validated request: a success response, or an HTTP *)
(* error (raised by the pipeline, or the server's own bare 500)        *)
OneOutcome(q) ==
    \/ q.response.kind = "success" /\ q.response.status_code = 200
                                   /\ IsSome(q.response.documents)
    \/ q.response.kind \in {"http_exception", "unhandled_exception"}
          /\ q.response.status_code = 500 /\ IsNone(q.response.documents)

(* C29: when the awaited call of every request eventually returns or  *)
(* raises, every validated request eventually ends; a validated        *)
(* request that ended has one outcome, a success or an HTTP error,     *)
(* and keeps it; and a request leaves the wait for its external call   *)
(* only by that call returning or raising: no step of the handler      *)
(* ends the wait by a timeout.                                         *)
C29_ValidatedRequestEndsInOneOutcome ==
    /\ \A r \in ConcurrentIds :
          Validated(requests[r]) ~> (requests[r].pc = "done")
    /\ [](\A r \in ConcurrentIds :
            (Validated(requests[r]) /\ requests[r].pc = "done") => OneOutcome(requests[r]))
    /\ [][\A r \in ConcurrentIds :
            requests[r].pc = "done" => requests'[r] = requests[r]]_vars
    /\ [][\A r \in ConcurrentIds :
            (requests[r].pc = "awaiting" /\ requests'[r].pc # "awaiting") =>
                /\ requests'[r].pc = "done"
                /\ IsSome(requests'[r].completion)]_vars

(* every request was validated and has ended, one of them through an  *)
(* external call that raised                                           *)
C29_Witness ==
    /\ \A r \in ConcurrentIds : Validated(requests[r]) /\ requests[r].pc = "done"
    /\ \E r \in ConcurrentIds :
          /\ IsSome(requests[r].completion)
          /\ requests[r].completion.v.kind = "raises"
          /\ requests[r].response.status_code = 500

(* the handler took its re-fallback branch for this request *)
TookReFallback(q) ==
    \E i \in 1..Len(q.printed) :
        q.printed[i].text = "Warning: System prompt is empty or invalid"

(* C30: every template of the registry and the default are non-blank, *)
(* so whatever scamType is submitted the handler never takes the       *)
(* re-fallback branch: no request printed its warning, the prompt      *)
(* selected is the value looked up, and the system message of every    *)
(* call is non-blank.                                                  *)
C30_ReFallbackNeverTaken ==
    /\ \A k \in DOMAIN prompt_mapping : strip(prompt_mapping[k]) # <<>>
    /\ strip(OTHER_SCAMS_SYSTEM_PROMPT) # <<>>
    /\ \A r \in RequestIds :
          LET q == requests[r] IN
          HandlerRan(q) =>
              /\ ~TookReFallback(q)
              /\ q.selected_system_prompt =
                    Some(PromptMappingGet(q.report_data.v.scamType.s,
                                          OTHER_SCAMS_SYSTEM_PROMPT))
              /\ strip(q.selected_system_prompt.v) # <<>>
              /\ \A i \in 1..Len(q.calls) :
                    strip(q.calls[i].messages[1].content) # <<>>

(* the handler ran for the empty-string category and issued a call  *)
(* carrying the default template as its system message               *)
C30_Witness ==
    \E r \in RequestIds :
        /\ HandlerRan(requests[r])
        /\ requests[r].report_data.v.scamType.s = <<>>
        /\ Len(requests[r].calls) = 1
        /\ requests[r].calls[1].messages[1].content = OTHER_SCAMS_SYSTEM_PROMPT

====
